---- MODULE Spec2Model ----
(***************************************************************************)
(* A2KDA Aurora: the visibility scoring engine (AuroraBrain), the solar    *)
(* darkness model, the moon penalty, the hourly projection and the app     *)
(* state that feeds them (src/app.js).                                     *)
(*                                                                         *)
(* Number representation                                                   *)
(*   scores            integer multiples of 1/60000 point (Unit)           *)
(*   kp                tenths                (kp 5.0  -> 50)               *)
(*   light pollution,                                                      *)
(*   cloud cover,                                                          *)
(*   moon illumination hundredths            (0.2     -> 20)               *)
(*   distances         kilometres                                          *)
(*   clock hours       minutes               (23:00   -> 1380)             *)
(*   darkness factor   twentieths            (0.25    -> 5)                *)
(* With these units every product and quotient of the scoring pipeline is  *)
(* an exact integer.                                                       *)
(* A JavaScript value that may be a number, NaN or null/undefined is a     *)
(* record [k, v]: Num(v), NaN, Undef.                                      *)
(***************************************************************************)
EXTENDS Integers, Sequences, FiniteSets, TLC

\* ---------------------------------------------------------------- values

Num(x) == [k |-> "num", v |-> x]

NaN == [k |-> "nan", v |-> 0]

Undef == [k |-> "none", v |-> 0]

IsNum(x) == x.k = "num"

\* typeof x === "number" (true for NaN as well)
TypeofNumber(x) == x.k \in {"num", "nan"}

\* Number(x) || 0
NumberOr0(x) == IF IsNum(x) THEN x.v ELSE 0

Min(a, b) == IF a < b THEN a ELSE b

Max(a, b) == IF a > b THEN a ELSE b

\* one score point: every quotient of the pipeline (k / 9 * 60, the relief
\* min(1, k / 7) * 0.7 on hundredths, the factors 0.25 .. 0.6) is whole
Unit == 3 * 1000 * 20

\* Math.max(0, Math.min(100, score)) on a score that may be NaN
Clamp0to100(s) == IF IsNum(s) THEN Num(Max(0, Min(100 * Unit, s.v))) ELSE NaN

\* Math.max(0, score) on a score that may be NaN
ClampMin0(s) == IF IsNum(s) THEN Num(Max(0, s.v)) ELSE NaN

\* score - penalty on a score that may be NaN
Minus(s, p) == IF IsNum(s) THEN Num(s.v - p) ELSE NaN

\* score + bonus on a score that may be NaN
Plus(s, p) == IF IsNum(s) THEN Num(s.v + p) ELSE NaN

\* null for an hour value
NoHour == -1

MinutesPerDay == 24 * 60

\* ---------------------------------------------------------------- AuroraBrain

\* (k / 9) * 60 with k = clamp(Number(kp) || 0, 0, 9)
kpScore(kp) ==
  LET k == Min(90, Max(0, NumberOr0(kp)))
  IN  (k * 2 * Unit) \div 3

\* 30 * (1 - d / 1500) with d = clamp(Number(distanceToOvalKm) || 0, 0, 1500)
locationScore(distanceToOvalKm) ==
  LET maxDist == 1500
      d == Min(maxDist, Max(0, NumberOr0(distanceToOvalKm)))
  IN  30 * Unit - 30 * d * (Unit \div maxDist)

\* lightPollutionPenalty without the KP relief: the base penalty alone
lightPollutionPenaltyNoRelief(lightPollution, kp) ==
  LET lp == Min(100, Max(0, NumberOr0(lightPollution)))
  IN  (30 * lp) * 100 * (Unit \div 10000)

\* basePenalty * (1 - min(1, k / 7) * 0.7), basePenalty = 30 * lp
lightPollutionPenalty(lightPollution, kp) ==
  LET lp == Min(100, Max(0, NumberOr0(lightPollution)))
      k == Min(90, Max(0, NumberOr0(kp)))
      relief == Min(70, k)        \* kpReliefFactor * 70
  IN  (30 * lp) * (100 - relief) * (Unit \div 10000)

\* the % of JavaScript: the remainder takes the sign of the dividend
JsRem(a, n) == IF a >= 0 THEN a % n ELSE 0 - ((0 - a) % n)

\* ((h % 24) + 24) % 24 on minutes
WrapDay(m) == JsRem(JsRem(m, MinutesPerDay) + MinutesPerDay, MinutesPerDay)

\* timeOfNightAdjustment with the midnight band closed at 02:00
timeOfNightAdjustmentUntilTwo(timeLocalHour) ==
  IF ~TypeofNumber(timeLocalHour) THEN 0
  ELSE IF ~IsNum(timeLocalHour) THEN 0
  ELSE LET h == WrapDay(timeLocalHour.v)
       IN  IF h >= 22 * 60 \/ h <= 2 * 60 THEN 3 * Unit
           ELSE IF (h >= 3 * 60 /\ h <= 4 * 60) \/ (h >= 20 * 60 /\ h <= 21 * 60)
                THEN 1 * Unit
                ELSE 0

\* small bonus around local midnight only
timeOfNightAdjustment(timeLocalHour) ==
  IF ~TypeofNumber(timeLocalHour) THEN 0
  ELSE IF ~IsNum(timeLocalHour) THEN 0
  ELSE LET h == WrapDay(timeLocalHour.v)
       IN  IF h >= 22 * 60 \/ h < 2 * 60 THEN 3 * Unit
           ELSE IF (h >= 3 * 60 /\ h <= 4 * 60) \/ (h >= 20 * 60 /\ h <= 21 * 60)
                THEN 1 * Unit
                ELSE 0

\* the cloud step with a weight of 20 points instead of 25
CloudStepWeight20(score, cloudCover) ==
  IF TypeofNumber(cloudCover)
  THEN IF IsNum(cloudCover)
       THEN Minus(score, (20 * Min(100, Max(0, cloudCover.v)) * Unit) \div 100)
       ELSE NaN
  ELSE score

\* the cloud step of computeBrain: only when typeof cloudCover === "number"
CloudStep(score, cloudCover) ==
  IF TypeofNumber(cloudCover)
  THEN IF IsNum(cloudCover)
       THEN Minus(score, (25 * Min(100, Max(0, cloudCover.v)) * Unit) \div 100)
       ELSE NaN
  ELSE score

\* computeBrain pushing the local-time line whatever the adjustment
computeBrainTimeLineAlways(inputs) ==
  LET sKp == kpScore(inputs.kp)
      sLoc == locationScore(inputs.distanceToOvalKm)
      lpPenalty == lightPollutionPenalty(inputs.lightPollution, inputs.kp)
      s0 == Num(sKp + sLoc - lpPenalty)
      s1 == CloudStep(s0, inputs.cloudCover)
      timeAdj == timeOfNightAdjustment(inputs.timeLocalHour)
      s2 == IF timeAdj # 0 THEN Plus(s1, timeAdj) ELSE s1
      score == Clamp0to100(s2)
      debug == <<"kp", "oval", "lightPollution">>
               \o (IF TypeofNumber(inputs.cloudCover) THEN <<"cloud">> ELSE <<>>)
               \o <<"time", "base">>
  IN  [score |-> score, debug |-> debug, kpScore |-> sKp,
       locationScore |-> sLoc, lightPollutionPenalty |-> lpPenalty]

\* computeBrain: base score ignoring darkness and moon, and its trace lines
computeBrain(inputs) ==
  LET sKp == kpScore(inputs.kp)
      sLoc == locationScore(inputs.distanceToOvalKm)
      lpPenalty == lightPollutionPenalty(inputs.lightPollution, inputs.kp)
      s0 == Num(sKp + sLoc - lpPenalty)
      s1 == CloudStep(s0, inputs.cloudCover)
      timeAdj == timeOfNightAdjustment(inputs.timeLocalHour)
      s2 == IF timeAdj # 0 THEN Plus(s1, timeAdj) ELSE s1
      score == Clamp0to100(s2)
      debug == <<"kp", "oval", "lightPollution">>
               \o (IF TypeofNumber(inputs.cloudCover) THEN <<"cloud">> ELSE <<>>)
               \o (IF timeAdj # 0 THEN <<"time">> ELSE <<>>)
               \o <<"base">>
  IN  [score |-> score, debug |-> debug, kpScore |-> sKp,
       locationScore |-> sLoc, lightPollutionPenalty |-> lpPenalty]

\* ---------------------------------------------------------------- solar darkness model

\* Math.sin on whole degrees 0..90, times 10000
SinTab ==
  << 0, 175, 349, 523, 698, 872, 1045, 1219, 1392, 1564, 1736, 1908, 2079,
     2250, 2419, 2588, 2756, 2924, 3090, 3256, 3420, 3584, 3746, 3907, 4067, 4226,
     4384, 4540, 4695, 4848, 5000, 5150, 5299, 5446, 5592, 5736, 5878, 6018, 6157,
     6293, 6428, 6561, 6691, 6820, 6947, 7071, 7193, 7314, 7431, 7547, 7660, 7771,
     7880, 7986, 8090, 8192, 8290, 8387, 8480, 8572, 8660, 8746, 8829, 8910, 8988,
     9063, 9135, 9205, 9272, 9336, 9397, 9455, 9511, 9563, 9613, 9659, 9703, 9744,
     9781, 9816, 9848, 9877, 9903, 9925, 9945, 9962, 9976, 9986, 9994, 9998, 10000 >>

\* sine of an angle in the first quadrant, milli-degrees in, 1/10000 out
SinQ(a) ==
  LET d == a \div 1000
      f == a % 1000
  IN  IF d >= 90 THEN 10000
      ELSE SinTab[d + 1] + ((SinTab[d + 2] - SinTab[d + 1]) * f) \div 1000

\* Math.sin(toRad(deg)): milli-degrees in, 1/10000 out
SinE4(md) ==
  LET a == md % 360000
  IN  IF a <= 90000 THEN SinQ(a)
      ELSE IF a <= 180000 THEN SinQ(180000 - a)
      ELSE IF a <= 270000 THEN 0 - SinQ(a - 180000)
      ELSE 0 - SinQ(360000 - a)

\* Math.cos(toRad(deg)): milli-degrees in, 1/10000 out
CosE4(md) == SinE4(md + 90000)

\* toDeg(Math.acos(c)) / 15 hours, as minutes; c in 1/10000. The whole
\* degree below the angle is searched by tens, then by units; the remainder
\* is interpolated.
AcosMin(c) ==
  LET units(t) == CHOOSE x \in (10 * t)..(10 * t + 9) :
                    CosE4(x * 1000) >= c /\ c >= CosE4((x + 1) * 1000)
      interpolate(d, hi, lo) == 4 * d + (4 * (hi - c)) \div (hi - lo)
      within(d) == interpolate(d, CosE4(d * 1000), CosE4((d + 1) * 1000))
  IN  within(units(CHOOSE x \in 0..17 :
                     CosE4(x * 10000) >= c /\ c >= CosE4((x + 1) * 10000)))

\* dayOfYear(date): date is [doy, hour (minute of the day), tz (minutes)]
dayOfYear(date) == date.doy

\* wrapHour on minutes: h % 24, plus 24 when negative
wrapHour(h) ==
  IF JsRem(h, MinutesPerDay) < 0 THEN JsRem(h, MinutesPerDay) + MinutesPerDay
  ELSE JsRem(h, MinutesPerDay)

\* isoToLocalHour: a feed timestamp (absolute minutes of the local clock, or
\* missing / unparsable) to the local clock hour
isoToLocalHour(iso) ==
  IF ~IsNum(iso) THEN NoHour ELSE iso.v % MinutesPerDay

\* isHourBetween true at any hour once both bounds are there
isHourBetweenAnyHour(h, start, end) == start # NoHour /\ end # NoHour

\* isHourBetween comparing the bounds as they come: linear containment
isHourBetweenLinear(h, start, end) ==
  IF start = NoHour \/ end = NoHour THEN FALSE
  ELSE LET hh == wrapHour(h)
       IN  IF start = end THEN FALSE
           ELSE hh >= start /\ hh < end

\* circular half-open containment [start, end)
isHourBetween(h, start, end) ==
  IF start = NoHour \/ end = NoHour THEN FALSE
  ELSE LET hh == wrapHour(h)
           s == wrapHour(start)
           e == wrapHour(end)
       IN  IF s = e THEN FALSE
           ELSE IF s < e THEN hh >= s /\ hh < e
           ELSE hh >= s \/ hh < e

\* the value null / undefined where a DarknessInfo is expected
NoDarkness ==
  [some |-> FALSE, sunrise |-> NoHour, sunset |-> NoHour,
   astroDawn |-> NoHour, astroDusk |-> NoHour,
   hasDay |-> FALSE, alwaysDaylight |-> FALSE, alwaysNight |-> FALSE,
   hasAstronomicalNight |-> FALSE, neverDark |-> FALSE,
   alwaysAstronomicalDark |-> FALSE,
   isDaylightNow |-> FALSE, isDarkNow |-> FALSE, source |-> "none"]

\* hourAngleForAltitude(h0Deg) inside computeDarknessInfo; angles in
\* milli-degrees. cosH = num / den is compared with -1 and 1 by cross
\* multiplication (den >= 0; a zero den is the tiny positive cosine of lat 90).
hourAngleForAltitude(h0, latMd, declMd) ==
  LET cosHOf(num, den) ==
        IF num < 0 - den \/ (den = 0 /\ num < 0)
        THEN [exists |-> FALSE, alwaysAbove |-> TRUE, alwaysBelow |-> FALSE, Hmin |-> 0]
        ELSE IF num > den \/ den = 0
        THEN [exists |-> FALSE, alwaysAbove |-> FALSE, alwaysBelow |-> TRUE, Hmin |-> 0]
        ELSE [exists |-> TRUE, alwaysAbove |-> FALSE, alwaysBelow |-> FALSE,
              Hmin |-> AcosMin(Max(-10000,
                                   Min(10000, num \div Max(1, den \div 10000))))]
  IN  cosHOf(SinE4(h0) * 10000 - SinE4(latMd) * SinE4(declMd),
             CosE4(latMd) * CosE4(declMd))

\* computeDarknessInfo(lat, lon, date); lat, lon in hundredths of a degree
computeDarknessInfo(lat, lon, date) ==
  IF ~IsNum(lat) \/ ~IsNum(lon) THEN NoDarkness
  ELSE
  LET N == dayOfYear(date)
      latMd == lat.v * 10
      \* 12 + (tzOffsetHours * 15 - lon) / 15, in minutes
      solarNoon == 720 + date.tz - (lon.v * 4) \div 100
      info(sun0, astro) ==
        LET hasDay == sun0.exists
            sunrise == IF sun0.exists THEN wrapHour(solarNoon - sun0.Hmin) ELSE NoHour
            sunset == IF sun0.exists THEN wrapHour(solarNoon + sun0.Hmin) ELSE NoHour
            alwaysDaylight == ~sun0.exists /\ sun0.alwaysAbove
            alwaysNight == ~sun0.exists /\ ~sun0.alwaysAbove /\ sun0.alwaysBelow
            hasAstronomicalNight == astro.exists
            astroDawn == IF astro.exists THEN wrapHour(solarNoon - astro.Hmin) ELSE NoHour
            astroDusk == IF astro.exists THEN wrapHour(solarNoon + astro.Hmin) ELSE NoHour
            neverDark == ~astro.exists /\ astro.alwaysAbove
            alwaysAstronomicalDark == ~astro.exists /\ ~astro.alwaysAbove /\ astro.alwaysBelow
            hourNow == date.hour
            isDaylightNow == IF hasDay THEN isHourBetween(hourNow, sunrise, sunset)
                             ELSE alwaysDaylight
            isDarkNow == IF alwaysAstronomicalDark THEN TRUE
                         ELSE IF hasAstronomicalNight
                              THEN isHourBetween(hourNow, astroDusk, astroDawn)
                              ELSE FALSE
        IN  [some |-> TRUE, sunrise |-> sunrise, sunset |-> sunset,
             astroDawn |-> astroDawn, astroDusk |-> astroDusk,
             hasDay |-> hasDay, alwaysDaylight |-> alwaysDaylight,
             alwaysNight |-> alwaysNight,
             hasAstronomicalNight |-> hasAstronomicalNight, neverDark |-> neverDark,
             alwaysAstronomicalDark |-> alwaysAstronomicalDark,
             isDaylightNow |-> isDaylightNow, isDarkNow |-> isDarkNow,
             source |-> "none"]
      angles(declMd) == info(hourAngleForAltitude(-833, latMd, declMd),
                             hourAngleForAltitude(-18000, latMd, declMd))
  IN  angles((2345 * SinE4((360000 * (284 + N)) \div 365)) \div 1000)

\* the value null where the sunrise-sunset results are expected
NoResults ==
  [some |-> FALSE, sunrise |-> Undef, sunset |-> Undef,
   astronomical_twilight_begin |-> Undef, astronomical_twilight_end |-> Undef]

\* buildDarknessFromLiveTimes(results); hourNow is new Date() at the call
buildDarknessFromLiveTimes(results, hourNow) ==
  IF ~results.some THEN NoDarkness
  ELSE
  LET sunrise == isoToLocalHour(results.sunrise)
      sunset == isoToLocalHour(results.sunset)
      astroDawn == isoToLocalHour(results.astronomical_twilight_begin)
      astroDusk == isoToLocalHour(results.astronomical_twilight_end)
      hasDay == sunrise # NoHour /\ sunset # NoHour
  IN  IF astroDawn = NoHour \/ astroDusk = NoHour THEN NoDarkness
      ELSE [some |-> TRUE, sunrise |-> sunrise, sunset |-> sunset,
            astroDawn |-> astroDawn, astroDusk |-> astroDusk,
            hasDay |-> hasDay, alwaysDaylight |-> FALSE, alwaysNight |-> FALSE,
            hasAstronomicalNight |-> TRUE, neverDark |-> FALSE,
            alwaysAstronomicalDark |-> FALSE,
            isDaylightNow |-> hasDay /\ isHourBetween(hourNow, sunrise, sunset),
            isDarkNow |-> isHourBetween(hourNow, astroDusk, astroDawn),
            source |-> "live-api"]

\* computeDarknessFactorAndNote with the coarse daylight factor (0.3) used
\* inside the astronomical-night branch as well
computeDarknessFactorCoarseDaylight(darkness) ==
  IF ~darkness.some THEN [factor |-> 20, note |-> "unavailable"]
  ELSE IF darkness.alwaysAstronomicalDark
          \/ (darkness.alwaysNight /\ ~darkness.neverDark)
  THEN [factor |-> 20, note |-> "alwaysDark"]
  ELSE IF darkness.neverDark THEN [factor |-> 10, note |-> "neverDark"]
  ELSE IF darkness.hasAstronomicalNight
  THEN IF darkness.isDarkNow THEN [factor |-> 20, note |-> "darkWindow"]
       ELSE IF darkness.isDaylightNow THEN [factor |-> 6, note |-> "daylight"]
       ELSE [factor |-> 12, note |-> "twilight"]
  ELSE IF darkness.hasDay
  THEN IF darkness.isDaylightNow THEN [factor |-> 6, note |-> "coarseDaylight"]
       ELSE [factor |-> 12, note |-> "coarseNight"]
  ELSE [factor |-> 20, note |-> "noFlags"]

\* computeDarknessFactorAndNote with the never-dark test placed first
computeDarknessFactorNeverDarkFirst(darkness) ==
  IF ~darkness.some THEN [factor |-> 20, note |-> "unavailable"]
  ELSE IF darkness.neverDark THEN [factor |-> 10, note |-> "neverDark"]
  ELSE IF darkness.alwaysAstronomicalDark \/ darkness.alwaysNight
  THEN [factor |-> 20, note |-> "alwaysDark"]
  ELSE IF darkness.hasAstronomicalNight
  THEN IF darkness.isDarkNow THEN [factor |-> 20, note |-> "darkWindow"]
       ELSE IF darkness.isDaylightNow THEN [factor |-> 5, note |-> "daylight"]
       ELSE [factor |-> 12, note |-> "twilight"]
  ELSE IF darkness.hasDay
  THEN IF darkness.isDaylightNow THEN [factor |-> 6, note |-> "coarseDaylight"]
       ELSE [factor |-> 12, note |-> "coarseNight"]
  ELSE [factor |-> 20, note |-> "noFlags"]

\* computeDarknessFactorAndNote whose first branch tests the always-dark flag only
computeDarknessFactorAstroDarkOnly(darkness) ==
  IF ~darkness.some THEN [factor |-> 20, note |-> "unavailable"]
  ELSE IF darkness.alwaysAstronomicalDark
  THEN [factor |-> 20, note |-> "alwaysDark"]
  ELSE IF darkness.neverDark THEN [factor |-> 10, note |-> "neverDark"]
  ELSE IF darkness.hasAstronomicalNight
  THEN IF darkness.isDarkNow THEN [factor |-> 20, note |-> "darkWindow"]
       ELSE IF darkness.isDaylightNow THEN [factor |-> 5, note |-> "daylight"]
       ELSE [factor |-> 12, note |-> "twilight"]
  ELSE IF darkness.hasDay
  THEN IF darkness.isDaylightNow THEN [factor |-> 6, note |-> "coarseDaylight"]
       ELSE [factor |-> 12, note |-> "coarseNight"]
  ELSE [factor |-> 20, note |-> "noFlags"]

\* darkness -> scale factor in twentieths (the note is the trace line)
computeDarknessFactorAndNote(darkness) ==
  IF ~darkness.some THEN [factor |-> 20, note |-> "unavailable"]
  ELSE IF darkness.alwaysAstronomicalDark
          \/ (darkness.alwaysNight /\ ~darkness.neverDark)
  THEN [factor |-> 20, note |-> "alwaysDark"]
  ELSE IF darkness.neverDark THEN [factor |-> 10, note |-> "neverDark"]
  ELSE IF darkness.hasAstronomicalNight
  THEN IF darkness.isDarkNow THEN [factor |-> 20, note |-> "darkWindow"]
       ELSE IF darkness.isDaylightNow THEN [factor |-> 5, note |-> "daylight"]
       ELSE [factor |-> 12, note |-> "twilight"]
  ELSE IF darkness.hasDay
  THEN IF darkness.isDaylightNow THEN [factor |-> 6, note |-> "coarseDaylight"]
       ELSE [factor |-> 12, note |-> "coarseNight"]
  ELSE [factor |-> 20, note |-> "noFlags"]

\* ---------------------------------------------------------------- moon

\* the value null where a MoonInfo is expected
NoMoon == [some |-> FALSE, phase |-> 0, illumination |-> 0, phaseName |-> ""]

\* computeMoonPenalty without the daylight test
computeMoonPenaltyInDaylight(moon, darknessContext) ==
  IF ~moon.some \/ ~darknessContext.some THEN 0
  ELSE LET illum == Min(100, Max(0, moon.illumination))
           maxPenalty == 18
       IN  IF illum < 10 THEN 0 ELSE (maxPenalty * illum * Unit) \div 100

\* computeMoonPenalty(moon, darknessContext), in score units
computeMoonPenalty(moon, darknessContext) ==
  IF ~moon.some \/ ~darknessContext.some THEN 0
  ELSE IF darknessContext.alwaysDaylight \/ darknessContext.isDaylightNow THEN 0
  ELSE LET illum == Min(100, Max(0, moon.illumination))
           maxPenalty == 18
       IN  IF illum < 10 THEN 0 ELSE (maxPenalty * illum * Unit) \div 100

\* minutes in a synodic month (29.53058867 days)
SynodicMinutes == 42524

\* computeMoonInfo naming New Moon from phase 0.97 itself
computeMoonInfoNewFrom97(ageMin) ==
  LET phase == ((ageMin % SynodicMinutes) * 10000) \div SynodicMinutes
      illumination == (10000 - CosE4(phase * 36)) \div 200
      phaseName ==
        IF phase < 300 \/ phase >= 9700 THEN "New Moon"
        ELSE IF phase < 2200 THEN "Waxing crescent"
        ELSE IF phase < 2800 THEN "First quarter"
        ELSE IF phase < 4700 THEN "Waxing gibbous"
        ELSE IF phase < 5300 THEN "Full Moon"
        ELSE IF phase < 7200 THEN "Waning gibbous"
        ELSE IF phase < 7800 THEN "Last quarter"
        ELSE "Waning crescent"
  IN  [some |-> TRUE, phase |-> phase, illumination |-> illumination,
       phaseName |-> phaseName]

\* computeMoonInfo(date): ageMin is (date - knownNewMoon) in minutes;
\* phase in 1/10000, illumination in hundredths
computeMoonInfo(ageMin) ==
  LET phase == ((ageMin % SynodicMinutes) * 10000) \div SynodicMinutes
      illumination == (10000 - CosE4(phase * 36)) \div 200
      phaseName ==
        IF phase < 300 \/ phase > 9700 THEN "New Moon"
        ELSE IF phase < 2200 THEN "Waxing crescent"
        ELSE IF phase < 2800 THEN "First quarter"
        ELSE IF phase < 4700 THEN "Waxing gibbous"
        ELSE IF phase < 5300 THEN "Full Moon"
        ELSE IF phase < 7200 THEN "Waning gibbous"
        ELSE IF phase < 7800 THEN "Last quarter"
        ELSE "Waning crescent"
  IN  [some |-> TRUE, phase |-> phase, illumination |-> illumination,
       phaseName |-> phaseName]

\* ---------------------------------------------------------------- scoring pass

\* score * factor with the factor of full darkness taken as 1.25
TimesBoosted(s, factor) ==
  IF IsNum(s) THEN Num((s.v * (IF factor = 20 THEN 25 ELSE factor)) \div 20) ELSE NaN

\* score * factor on a score that may be NaN; factor in twentieths
Times(s, factor) == IF IsNum(s) THEN Num((s.v * factor) \div 20) ELSE NaN

\* a >= b on a score that may be NaN (a comparison with NaN is false)
Geq(s, points) == IsNum(s) /\ s.v >= points * Unit

\* final verdict thresholds on the darkness-adjusted score
Verdict(adjustedScore) ==
  IF Geq(adjustedScore, 65) THEN "yes"
  ELSE IF Geq(adjustedScore, 35) THEN "maybe"
  ELSE "no"

\* no scoring pass has produced a verdict yet
NoResult ==
  [some |-> FALSE, baseScore |-> Num(0), moonPenalty |-> 0,
   scoreAfterMoon |-> Num(0), darknessFactor |-> 20, score |-> Num(0),
   verdict |-> "", debug |-> <<>>]

\* ScoringPass with the verdict taken from the base score
ScoringPassVerdictOnBase(in) ==
  LET baseResult == computeBrain(in)
      moonPenaltyNow == IF in.moon.some
                        THEN computeMoonPenalty(in.moon, in.darkness) ELSE 0
      scoreAfterMoon == IF moonPenaltyNow > 0
                        THEN ClampMin0(Minus(baseResult.score, moonPenaltyNow))
                        ELSE baseResult.score
      df == computeDarknessFactorAndNote(in.darkness)
      darknessFactor == IF in.darkness.some THEN df.factor ELSE 20
      adjustedScore == Clamp0to100(Times(scoreAfterMoon, darknessFactor))
  IN  [some |-> TRUE, baseScore |-> baseResult.score,
       moonPenalty |-> moonPenaltyNow, scoreAfterMoon |-> scoreAfterMoon,
       darknessFactor |-> darknessFactor, score |-> adjustedScore,
       verdict |-> Verdict(baseResult.score), debug |-> baseResult.debug]

\* the main brain of recomputeAurora: base score, then moon penalty, then
\* darkness factor, then the verdict
ScoringPass(in) ==
  LET baseResult == computeBrain(in)
      moonPenaltyNow == IF in.moon.some
                        THEN computeMoonPenalty(in.moon, in.darkness) ELSE 0
      scoreAfterMoon == IF moonPenaltyNow > 0
                        THEN ClampMin0(Minus(baseResult.score, moonPenaltyNow))
                        ELSE baseResult.score
      df == computeDarknessFactorAndNote(in.darkness)
      darknessFactor == IF in.darkness.some THEN df.factor ELSE 20
      adjustedScore == Clamp0to100(Times(scoreAfterMoon, darknessFactor))
      verdict == Verdict(adjustedScore)
      debug == baseResult.debug
               \o (IF moonPenaltyNow > 0 THEN <<"moon", "afterMoon">>
                   ELSE <<"moonNegligible">>)
               \o <<"darkness">>
               \o (IF darknessFactor # 20 THEN <<"afterDarkness">>
                   ELSE <<"unchangedByDarkness">>)
               \o <<"verdict">>
  IN  [some |-> TRUE, baseScore |-> baseResult.score,
       moonPenalty |-> moonPenaltyNow, scoreAfterMoon |-> scoreAfterMoon,
       darknessFactor |-> darknessFactor, score |-> adjustedScore,
       verdict |-> verdict, debug |-> debug]

\* ---------------------------------------------------------------- hourly projection

\* index of the sample nearest to targetTs (the first one on a tie)
NearestSample(hourlyCloudCover, targetTs) ==
  LET diff(i) == IF hourlyCloudCover[i].time >= targetTs
                 THEN hourlyCloudCover[i].time - targetTs
                 ELSE targetTs - hourlyCloudCover[i].time
  IN  CHOOSE i \in DOMAIN hourlyCloudCover :
        \A j \in DOMAIN hourlyCloudCover :
          diff(i) < diff(j) \/ (diff(i) = diff(j) /\ i <= j)

\* mapCloudCoverForTime(targetDate): the forecast reading for an hour, or null
mapCloudCoverForTime(hourlyCloudCover, targetTs) ==
  IF Len(hourlyCloudCover) = 0 THEN Undef
  ELSE LET best == hourlyCloudCover[NearestSample(hourlyCloudCover, targetTs)]
           diff == IF best.time >= targetTs THEN best.time - targetTs
                   ELSE targetTs - best.time
       IN  IF diff <= 90 THEN Num(best.cover)   \* within ~90 minutes
           ELSE Num(best.cover)                 \* return best ? best.cover : null

\* Math.round on a score that may be NaN, in whole points
RoundScore(s) == IF IsNum(s) THEN Num((s.v + Unit \div 2) \div Unit) ELSE NaN

\* the body of hourDates.map in renderHourlyChart: one scored hour
HourEntry(hourDate, darkness, baseInputs, moon, hourlyCloudCover) ==
  LET localHour == hourDate % MinutesPerDay
      mapped == mapCloudCoverForTime(hourlyCloudCover, hourDate)
      cloudCover == IF mapped.k = "none" THEN baseInputs.cloudCover ELSE mapped
      in == [baseInputs EXCEPT !.cloudCover = cloudCover,
                               !.timeLocalHour = Num(localHour)]
      baseResult == computeBrain(in)
      isDayHour ==
        IF darkness.hasDay /\ darkness.sunrise # NoHour /\ darkness.sunset # NoHour
        THEN isHourBetween(localHour, darkness.sunrise, darkness.sunset)
        ELSE darkness.alwaysDaylight
      isDarkHour ==
        IF darkness.alwaysAstronomicalDark THEN TRUE
        ELSE IF darkness.hasAstronomicalNight /\ darkness.astroDusk # NoHour
                /\ darkness.astroDawn # NoHour
             THEN isHourBetween(localHour, darkness.astroDusk, darkness.astroDawn)
             ELSE FALSE
      darknessForHour == [darkness EXCEPT !.isDaylightNow = isDayHour,
                                          !.isDarkNow = isDarkHour]
      moonPenaltyHour == computeMoonPenalty(moon, darknessForHour)
      afterMoon == IF moonPenaltyHour > 0
                   THEN Clamp0to100(Minus(baseResult.score, moonPenaltyHour))
                   ELSE baseResult.score
      factor == computeDarknessFactorAndNote(darknessForHour).factor
      score == Clamp0to100(Times(afterMoon, factor))
  IN  [time |-> hourDate, localHour |-> localHour, cloudCover |-> cloudCover,
       baseScore |-> baseResult.score, scoreAfterMoon |-> afterMoon,
       factor |-> factor, score |-> score, scoreRounded |-> RoundScore(score),
       isDayHour |-> isDayHour]

\* midnight of the day of an absolute time
DayStart(t) == t - (t % MinutesPerDay)

\* buildDateForHour(hourValue, baseDate)
buildDateForHour(hourValue, baseDate) == DayStart(baseDate) + hourValue

\* HourDates with the twelve-hour loop in the last branch as well
HourDatesTwelveEverywhere(darkness, now) ==
  IF darkness.hasAstronomicalNight /\ darkness.astroDusk # NoHour
     /\ darkness.astroDawn # NoHour
  THEN LET dusk0 == buildDateForHour(darkness.astroDusk, now)
           dawn0 == buildDateForHour(darkness.astroDawn, dusk0)
           dawn1 == IF dawn0 <= dusk0 THEN dawn0 + MinutesPerDay ELSE dawn0
           shift == IF now > dawn1 THEN MinutesPerDay ELSE 0
           duskDate == dusk0 + shift
           dawnDate == dawn1 + shift
           startDate == IF duskDate % 60 > 0
                        THEN duskDate - (duskDate % 60) + 60 ELSE duskDate
           count == IF startDate > dawnDate THEN 0
                    ELSE Min(48, (dawnDate - startDate) \div 60 + 1)
       IN  [i \in 1..count |-> startDate + (i - 1) * 60]
  ELSE [i \in 1..12 |-> (now - (now % 60)) + (i - 1) * 60]

\* the hourDates list of renderHourlyChart
HourDates(darkness, now) ==
  IF darkness.hasAstronomicalNight /\ darkness.astroDusk # NoHour
     /\ darkness.astroDawn # NoHour
  THEN LET dusk0 == buildDateForHour(darkness.astroDusk, now)
           dawn0 == buildDateForHour(darkness.astroDawn, dusk0)
           dawn1 == IF dawn0 <= dusk0 THEN dawn0 + MinutesPerDay ELSE dawn0
           shift == IF now > dawn1 THEN MinutesPerDay ELSE 0
           duskDate == dusk0 + shift
           dawnDate == dawn1 + shift
           startDate == IF duskDate % 60 > 0
                        THEN duskDate - (duskDate % 60) + 60 ELSE duskDate
           count == IF startDate > dawnDate THEN 0
                    ELSE Min(48, (dawnDate - startDate) \div 60 + 1)
       IN  [i \in 1..count |-> startDate + (i - 1) * 60]
  ELSE IF darkness.alwaysAstronomicalDark \/ darkness.alwaysNight
  THEN [i \in 1..12 |-> (now - (now % 60)) + (i - 1) * 60]
  ELSE [i \in 1..8 |-> (now - (now % 60)) + (i - 1) * 60]

\* !x for a coordinate: null, NaN and 0 are falsy
Falsy(x) == ~IsNum(x) \/ x.v = 0

\* the chart before any rendering
NoChart == [rows |-> "none", entries |-> <<>>]

\* renderHourlyChart(darkness, baseInputs, moonInfo)
renderHourlyChart(st, darkness, baseInputs, moon, now) ==
  IF Falsy(st.lat) \/ Falsy(st.lon) \/ ~darkness.some
  THEN [rows |-> "placeholder", entries |-> <<>>]
  ELSE LET hourDates == HourDates(darkness, now)
       IN  IF Len(hourDates) = 0
           THEN [rows |-> "placeholder", entries |-> <<>>]
           ELSE [rows |-> "entries",
                 entries |-> [i \in 1..Len(hourDates) |->
                                HourEntry(hourDates[i], darkness, baseInputs,
                                          moon, st.hourlyCloudCover)]]

\* ---------------------------------------------------------------- light pollution estimate

\* classifyLightPollutionValue(normalized), normalized in hundredths
classifyLightPollutionValue(normalized) ==
  LET n == Min(100, Max(0, normalized))
  IN  IF n < 33 THEN "dark" ELSE IF n < 66 THEN "suburban" ELSE "urban"

\* getLightPollution(lat, lon) when the grid gives no sample: the fallback
\* heuristic on latitude and longitude (hundredths of a degree)
FallbackLightPollution(lat, lon) ==
  LET absLat == IF lat < 0 THEN 0 - lat ELSE lat
      absLon == IF lon < 0 THEN 0 - lon ELSE lon
      byLat == IF absLat > 6600 THEN 22
               ELSE IF absLat > 5800 THEN 32
               ELSE IF absLat > 5000 THEN 42
               ELSE IF absLat > 4000 THEN 58
               ELSE 72
      heuristicNorm == IF absLon > 15000 \/ absLon < 2000 THEN byLat - 5 ELSE byLat
      normalized == Min(100, Max(0, heuristicNorm))
  IN  [source |-> "fallback", normalized |-> normalized,
       classification |-> classifyLightPollutionValue(normalized)]

\* the place-type adjustment of updateLightPollution
PlaceAdjust(normalized, ctx) ==
  IF ctx = "large-settlement" THEN Max(normalized, 80)
  ELSE IF ctx = "settlement" THEN Max(normalized, 60)
  ELSE IF ctx = "dark-nature" THEN Min(normalized, 25)
  ELSE normalized

\* ---------------------------------------------------------------- the light-pollution grid

VARIABLES
  gridLoadAttempted, \* the load-attempted flag of loadGridIfNeeded
  grid,              \* gridMeta and gridValues: NoGrid until a load sets them
  gridFetch,         \* the fetch of lightpollution_grid.json: "none", "inflight", "done"
  gridFetches,       \* number of times the fetch has been issued
  lpCalls            \* the getLightPollution calls so far, in call order

gridVars == <<gridLoadAttempted, grid, gridFetch, gridFetches, lpCalls>>

\* gridMeta = null, gridValues = null
NoGrid ==
  [some |-> FALSE, lat_min |-> 0, lon_min |-> 0, resolution_deg |-> 0,
   rows |-> 0, cols |-> 0, values |-> <<>>]

\* ((lon + 180) % 360 + 360) % 360 - 180, hundredths of a degree
WrapLon(lon) == JsRem(JsRem(lon + 18000, 36000) + 36000, 36000) - 18000

\* normalizeLightPollution({skyBrightness}): 18 (bright) .. 21.5 (dark)
\* mag/arcsec2, in hundredths, to 1 .. 0, in hundredths
normalizeLightPollution(skyBrightness) ==
  LET v == Min(2150, Max(1800, skyBrightness))
  IN  100 - ((v - 1800) * 100) \div 350

\* sampleGrid(lat, lon) on the grid g: the sky brightness of the cell, or
\* null; Math.floor is \div on a positive resolution
sampleGrid(g, lat, lon) ==
  IF ~g.some \/ g.resolution_deg <= 0 THEN Undef
  ELSE LET row == (lat - g.lat_min) \div g.resolution_deg
           col == (WrapLon(lon) - g.lon_min) \div g.resolution_deg
       IN  IF row < 0 \/ row >= g.rows \/ col < 0 \/ col >= g.cols THEN Undef
           ELSE IF ~IsNum(g.values[row * g.cols + col + 1]) THEN Undef
           ELSE g.values[row * g.cols + col + 1]

\* getLightPollution(lat, lon) after its await, with the grid being g: the
\* grid sample if there is one, the fallback heuristic otherwise
getLightPollution(g, lat, lon) ==
  IF IsNum(sampleGrid(g, lat, lon))
  THEN [source |-> "world-atlas-grid",
        normalized |-> normalizeLightPollution(sampleGrid(g, lat, lon).v),
        classification |->
          classifyLightPollutionValue(
            normalizeLightPollution(sampleGrid(g, lat, lon).v))]
  ELSE FallbackLightPollution(lat, lon)

\* a call that has not returned
NoEstimate == [source |-> "none", normalized |-> 0, classification |-> "none"]

\* the LightPollution module as constructed
GridInit ==
  /\ gridLoadAttempted = FALSE
  /\ grid = NoGrid
  /\ gridFetch = "none"
  /\ gridFetches = 0
  /\ lpCalls = <<>>

\* the flag left as it was: set only once the load has finished
loadAttemptedLeft(attempted) == attempted

\* the value of gridLoadAttempted after the guard of loadGridIfNeeded let the
\* call through: set before the first await
loadAttemptedAfterGuard(attempted) == TRUE

\* ---------------------------------------------------------------- service worker state

VARIABLES
  swVersion,  \* the fetch handler in service: "v1" (aurora-now-v1) or "v2"
  swCache,    \* the requests the cache holds a response for
  swEvents,   \* number of fetch events handled so far
  swEvent     \* the last fetch event and what the handler did with it

workerVars == <<swVersion, swCache, swEvents, swEvent>>

\* no fetch event yet
NoEvent ==
  [some |-> FALSE, method |-> "", mode |-> "", url |-> "", network |-> "",
   wasCached |-> FALSE, intercepted |-> FALSE, fetched |-> FALSE, response |-> ""]

\* the worker before its install event
WorkerInit ==
  /\ swVersion \in {"v1", "v2"}
  /\ swCache = {}
  /\ swEvents = 0
  /\ swEvent = NoEvent

\* the worker out of the picture
WorkerIdle ==
  /\ swVersion = "v2"
  /\ swCache = {}
  /\ swEvents = 0
  /\ swEvent = NoEvent

\* ---------------------------------------------------------------- the v0.1 forecast

VARIABLES
  forecastIn,  \* the arguments of buildForecast and the clock
  forecastOut  \* the hours list buildForecast returned

forecastVars == <<forecastIn, forecastOut>>

\* the value null (null / 100 is 0, where undefined / 100 is NaN)
Null == [k |-> "null", v |-> 0]

\* buildForecast has not been called
NoForecast == [some |-> FALSE, hours |-> <<>>]

ForecastIdle ==
  /\ forecastIn = [some |-> FALSE]
  /\ forecastOut = NoForecast

\* scoreValue of one hour in hundredths: base * (1 - cloud / 100), clamped
\* by the two comparisons (both false on NaN)
ForecastScore(base, cloud) ==
  IF base.k = "nan" \/ cloud.k \in {"nan", "none"} THEN NaN
  ELSE LET c == IF cloud.k = "null" THEN 0 ELSE cloud.v
           raw == base.v * (100 - c)
       IN  Num(IF raw < 0 THEN 0 ELSE IF raw > 1000 THEN 1000 ELSE raw)

\* element i of a JavaScript array: undefined past the end
At(arr, i) == IF i \in DOMAIN arr THEN arr[i] ELSE Undef

\* the loop of buildForecast over hourly.time from index i on, hourly being
\* the list built so far
RECURSIVE ForecastLoop(_, _, _, _, _)
ForecastLoop(w, base, nowMs, i, hourly) ==
  IF i > Len(w.time) THEN hourly
  ELSE IF Len(w.is_day) > 0 /\ At(w.is_day, i) = Num(1)
  THEN ForecastLoop(w, base, nowMs, i + 1, hourly)
  ELSE IF IsNum(w.time[i]) /\ w.time[i].v >= nowMs /\ Len(hourly) < 8
  THEN ForecastLoop(w, base, nowMs, i + 1,
                    Append(hourly,
                           [time |-> w.time[i].v, index |-> i,
                            score |-> ForecastScore(base, At(w.cloud_cover, i)),
                            cloudsPercent |-> At(w.cloud_cover, i),
                            fallback |-> FALSE]))
  ELSE ForecastLoop(w, base, nowMs, i + 1, hourly)

\* the hours of buildForecast(location, weatherData, spaceWeather) at clock
\* nowMs (minutes)
buildForecast(weatherData, spaceWeather, nowMs) ==
  LET base == IF spaceWeather.some /\ spaceWeather.baseStrength.k \in {"num", "nan"}
              THEN spaceWeather.baseStrength ELSE Num(3)
      hourly == IF weatherData.some /\ weatherData.hourly
                THEN ForecastLoop(weatherData, base, nowMs, 1, <<>>) ELSE <<>>
  IN  IF Len(hourly) = 0
      THEN <<[time |-> nowMs + 60, index |-> 0, score |-> Num(300),
              cloudsPercent |-> Num(50), fallback |-> TRUE]>>
      ELSE hourly

\* ---------------------------------------------------------------- a call of isHourBetween

VARIABLES
  betweenIn,  \* the arguments h, start, end of a call of isHourBetween
  betweenOut  \* what the call returned

betweenVars == <<betweenIn, betweenOut>>

\* no call has returned
NotReturned == [some |-> FALSE, value |-> FALSE]

BetweenIdle ==
  /\ betweenIn = [some |-> FALSE]
  /\ betweenOut = NotReturned

\* ---------------------------------------------------------------- live KP mode

VARIABLE
  kpLive  \* initKpLiveMode: the toggle (present, checked), intervalId (0 for
          \* null), the interval timers the window holds, the number of the
          \* next timer, the NOAA fetches in flight and the events so far

\* the layout without the toggle: initKpLiveMode does nothing
NoLiveKp ==
  [present |-> FALSE, checked |-> FALSE, intervalId |-> 0, timers |-> {},
   nextTimer |-> 1, inFlight |-> 0, events |-> 0]

KpLiveIdle == kpLive = NoLiveKp

\* ---------------------------------------------------------------- app state

VARIABLES
  state,      \* the state object of initApp
  now,        \* the local clock: minutes since midnight of the first day
  env,        \* the calendar day and moon age at minute 0, the UTC offset
  locating,   \* the startup location chain: "gps", "ip" or "done"
  nLoc,       \* number of location fixes so far (numbers the requests)
  searches,   \* number of place searches answered so far
  lpReq,      \* updateLightPollution calls in flight
  sunReq,     \* refreshDarknessFromSunriseSunset calls in flight
  weatherReq, \* refreshWeather calls in flight
  inputs,     \* the inputs of the scoring pass (kp, distance, ..., darkness)
  result,     \* the verdict shown: the outcome of the last scoring pass
  chart       \* the hourly chart shown

appVars == <<state, now, env, gridVars, workerVars, forecastVars, betweenVars, kpLive, locating, nLoc, searches, lpReq, sunReq, weatherReq>>

appVarsButState == <<now, env, gridVars, workerVars, forecastVars, betweenVars, kpLive, locating, nLoc, searches, lpReq, sunReq, weatherReq>>

\* the variables of the page itself
pageVars == <<state, now, env, locating, nLoc, searches, lpReq, sunReq, weatherReq,
              inputs, result, chart>>

vars == <<state, now, env, gridVars, workerVars, forecastVars, betweenVars, kpLive, locating, nLoc, searches, lpReq, sunReq, weatherReq,
          inputs, result, chart>>

\* the state object as constructed (the KP slider starts at 3.5); the last
\* three fields are not in the code: they record the number of the request
\* whose answer the estimate, the cloud cover and the live darkness came from
InitialState ==
  [lat |-> Undef, lon |-> Undef,
   geomagneticLatitude |-> Undef, distanceToOvalKm |-> Undef,
   lightPollution |-> 50, autoLightPollution |-> 50, lpMode |-> "auto",
   kp |-> 35, cloudCover |-> Num(20), hourlyCloudCover |-> <<>>,
   weatherSource |-> "pending", darkness |-> NoDarkness,
   darknessLive |-> NoDarkness, darknessSource |-> "model",
   lightPollutionFor |-> 0, cloudCoverFor |-> 0, darknessLiveFor |-> 0]

\* no scoring pass has run: no inputs
NoInputs ==
  [kp |-> Undef, distanceToOvalKm |-> Undef, lightPollution |-> Undef,
   cloudCover |-> Undef, timeLocalHour |-> Undef, moon |-> NoMoon,
   darkness |-> NoDarkness]

\* new Date() at clock t: day of the year, minute of the day, UTC offset
DateAt(t, e) ==
  [doy |-> ((e.doy0 - 1 + t \div MinutesPerDay) % 365) + 1,
   hour |-> t % MinutesPerDay, tz |-> e.tz]

\* approxGeomagneticLatitude(lat), hundredths of a degree
approxGeomagneticLatitude(lat) ==
  IF ~IsNum(lat) THEN Undef ELSE Num(lat.v - 1100)

\* approxDistanceToOvalKm(geomagLat): |geomagLat - 67| * 111, whole km
approxDistanceToOvalKm(geomagLat) ==
  IF ~IsNum(geomagLat) THEN Undef
  ELSE LET ovalLat == 6700
           deltaLat == IF geomagLat.v >= ovalLat THEN geomagLat.v - ovalLat
                       ELSE ovalLat - geomagLat.v
       IN  Num((deltaLat * 111) \div 100)

\* recomputeAurora() on the state st at clock t: the state it leaves, the
\* inputs it scored, the verdict and the chart it rendered
recomputeAurora(st, t, e) ==
  IF st.lat.k = "none" \/ st.lon.k = "none"
  THEN [state |-> st, inputs |-> NoInputs, result |-> NoResult, chart |-> NoChart]
  ELSE
  LET pass(d0, moon) ==
        LET localHour == t % MinutesPerDay
            darkness == IF d0.some /\ d0.source = "none"
                        THEN [d0 EXCEPT !.source =
                                IF st.darknessLive.some THEN "live-api" ELSE "model"]
                        ELSE d0
            geomagLat == IF st.geomagneticLatitude.k # "none" THEN st.geomagneticLatitude
                         ELSE approxGeomagneticLatitude(st.lat)
            distanceKm == IF st.distanceToOvalKm.k # "none" THEN st.distanceToOvalKm
                          ELSE approxDistanceToOvalKm(geomagLat)
            cloudCover == IF TypeofNumber(st.cloudCover) THEN st.cloudCover ELSE Num(20)
            st1 == [st EXCEPT !.darkness = darkness,
                              !.darknessSource = IF darkness.some THEN darkness.source
                                                 ELSE "model",
                              !.geomagneticLatitude = geomagLat,
                              !.distanceToOvalKm = distanceKm]
            baseInputs == [kp |-> Num(st.kp), distanceToOvalKm |-> distanceKm,
                           lightPollution |-> Num(st.lightPollution),
                           cloudCover |-> cloudCover, timeLocalHour |-> Num(localHour),
                           moon |-> moon, darkness |-> darkness]
        IN  [state |-> st1, inputs |-> baseInputs,
             result |-> ScoringPass(baseInputs),
             chart |-> renderHourlyChart(st1, darkness, baseInputs, moon, t)]
  IN  pass(IF st.darknessLive.some THEN st.darknessLive
           ELSE computeDarknessInfo(st.lat, st.lon, DateAt(t, e)),
           computeMoonInfo(e.moonAge0 + t))

\* a handler leaves the state st and ends with recomputeAurora()
Recompute(st) ==
  LET show(r) == /\ state' = r.state
                 /\ inputs' = r.inputs
                 /\ result' = r.result
                 /\ chart' = r.chart
  IN  show(recomputeAurora(st, now, env))

\* ---------------------------------------------------------------- the app: environment

\* places the device, the IP service and the place search can report
\* (hundredths of a degree)
Loc(lat, lon) == [lat |-> lat, lon |-> lon]

DeviceLocations ==
  {Loc(7800, 1500), Loc(8800, 1000), Loc(4850, -750), Loc(0, 3700), Loc(5150, 0)}

IpLocations == {Loc(4700, 800)}

SearchPlaces ==
  {[lat |-> 6960, lon |-> 1890, placeContext |-> "large-settlement"],
   [lat |-> 5700, lon |-> -500, placeContext |-> "dark-nature"]}

\* the day the app is opened: midsummer under a full moon, midwinter under a
\* new moon; the device clock is on UTC
Envs ==
  {[doy0 |-> 172, moonAge0 |-> 14 * MinutesPerDay, tz |-> 0],
   [doy0 |-> 355, moonAge0 |-> 0, tz |-> 0]}

\* the time of day the app is opened
StartTimes == {13 * 60 + 30, 23 * 60 + 10}

\* the clock advances in steps of TickMinutes, at most MaxTicks times
TickMinutes == 150

MaxTicks == 1

\* at most MaxSearches place searches are answered
MaxSearches == 1

\* KP slider positions the user moves to
KpSlider == {50}

\* Open-Meteo answers at clock t: the current cloud cover (percent) and the
\* hourly samples [time, cloud_cover]; either part may be missing, a sample
\* may carry null
WeatherFeeds(t) ==
  LET h0 == t - (t % 60)
  IN  {[current |-> Num(40), hourly |-> <<>>],
       [current |-> Undef,
        hourly |-> <<[time |-> Num(h0), c |-> Num(80)],
                     [time |-> Num(h0 + 60), c |-> Undef],
                     [time |-> Num(h0 + 120), c |-> Num(100)]>>],
       [current |-> Undef, hourly |-> <<>>]}

\* sunrise-sunset.org answers for the day of clock t: all four timestamps,
\* the twilight pair only, or the sunrise pair only
SunFeeds(t) ==
  LET day == DayStart(t)
  IN  {[some |-> TRUE, sunrise |-> Num(day + 8 * 60 + 40),
        sunset |-> Num(day + 15 * 60 + 50),
        astronomical_twilight_begin |-> Num(day + 6 * 60 + 10),
        astronomical_twilight_end |-> Num(day + 18 * 60 + 20)],
       [some |-> TRUE, sunrise |-> Undef, sunset |-> Undef,
        astronomical_twilight_begin |-> Num(day + 5 * 60),
        astronomical_twilight_end |-> Num(day + 19 * 60 + 30)],
       [some |-> TRUE, sunrise |-> Num(day + 8 * 60 + 40),
        sunset |-> Num(day + 15 * 60 + 50),
        astronomical_twilight_begin |-> Undef,
        astronomical_twilight_end |-> Undef]}

\* ---------------------------------------------------------------- the app: handlers

\* clamp01(v) on a percentage divided by 100: null unless a number
clamp01(v) == IF ~IsNum(v) THEN Undef ELSE Num(Min(100, Max(0, v.v)))

\* the hourly loop of refreshWeather: samples with a numeric cover and a
\* parsable time, covers clamped
ParseHourly(hourly) ==
  LET ok(x) == IsNum(x.c) /\ IsNum(x.time)
      kept == SelectSeq(hourly, ok)
  IN  [i \in 1..Len(kept) |->
         [time |-> kept[i].time.v, cover |-> clamp01(kept[i].c).v]]

\* the three requests every location handler starts
StartRequests(lat, lon, ctx) ==
  /\ nLoc' = nLoc + 1
  /\ lpReq' = lpReq \cup {[id |-> nLoc + 1, lat |-> lat, lon |-> lon, ctx |-> ctx]}
  /\ sunReq' = sunReq \cup {[id |-> nLoc + 1, lat |-> lat, lon |-> lon]}
  /\ weatherReq' = weatherReq \cup {[id |-> nLoc + 1, lat |-> lat, lon |-> lon]}

Init ==
  /\ state = InitialState
  /\ now \in StartTimes
  /\ \E e \in Envs : env = [doy0 |-> e.doy0, moonAge0 |-> e.moonAge0,
                            tz |-> e.tz, start |-> now]
  /\ locating = "gps"
  /\ GridInit
  /\ WorkerIdle
  /\ ForecastIdle
  /\ BetweenIdle
  /\ KpLiveIdle
  /\ nLoc = 0
  /\ searches = 0
  /\ lpReq = {}
  /\ sunReq = {}
  /\ weatherReq = {}
  /\ inputs = NoInputs
  /\ result = NoResult
  /\ chart = NoChart

\* initLocationViaGps, success callback
GpsSuccess ==
  /\ locating = "gps"
  /\ \E l \in DeviceLocations :
       /\ state' = [state EXCEPT !.lat = Num(l.lat), !.lon = Num(l.lon)]
       /\ StartRequests(l.lat, l.lon, "none")
  /\ locating' = "done"
  /\ UNCHANGED <<now, env, gridVars, workerVars, forecastVars, betweenVars, kpLive, searches, inputs, result, chart>>

\* initLocationViaGps, error callback: useIpLocationFallback starts
GpsError ==
  /\ locating = "gps"
  /\ locating' = "ip"
  /\ UNCHANGED <<state, now, env, gridVars, workerVars, forecastVars, betweenVars, kpLive, nLoc, searches, lpReq, sunReq, weatherReq,
                 inputs, result, chart>>

\* useDefaultRumLocation starting no request
UseDefaultRumSilent(st) ==
  /\ state' = [st EXCEPT !.lat = Num(5700), !.lon = Num(-633)]
  /\ UNCHANGED <<nLoc, lpReq, sunReq, weatherReq>>

\* useDefaultRumLocation on the state st
UseDefaultRum(st) ==
  /\ state' = [st EXCEPT !.lat = Num(5700), !.lon = Num(-633)]
  /\ StartRequests(5700, -633, "dark-nature")

\* useIpLocationFallback, the response carries usable coordinates
IpSuccess ==
  /\ locating = "ip"
  /\ \E l \in IpLocations :
       /\ state' = [state EXCEPT !.lat = Num(l.lat), !.lon = Num(l.lon)]
       /\ StartRequests(l.lat, l.lon, "none")
  /\ locating' = "done"
  /\ UNCHANGED <<now, env, gridVars, workerVars, forecastVars, betweenVars, kpLive, searches, inputs, result, chart>>

\* useIpLocationFallback, the response carries no usable coordinates
IpNoCoordinates ==
  /\ locating = "ip"
  /\ UseDefaultRum([state EXCEPT !.lat = Undef, !.lon = Undef])
  /\ locating' = "done"
  /\ UNCHANGED <<now, env, gridVars, workerVars, forecastVars, betweenVars, kpLive, searches, inputs, result, chart>>

\* useIpLocationFallback, the fetch fails
IpError ==
  /\ locating = "ip"
  /\ UseDefaultRum(state)
  /\ locating' = "done"
  /\ UNCHANGED <<now, env, gridVars, workerVars, forecastVars, betweenVars, kpLive, searches, inputs, result, chart>>

\* geocodeSearch, a result arrives
SearchResult ==
  /\ searches < MaxSearches
  /\ searches' = searches + 1
  /\ \E r \in SearchPlaces :
       /\ state' = [state EXCEPT !.lat = Num(r.lat), !.lon = Num(r.lon)]
       /\ StartRequests(r.lat, r.lon, r.placeContext)
  /\ UNCHANGED <<now, env, gridVars, workerVars, forecastVars, betweenVars, kpLive, locating, inputs, result, chart>>

\* updateLightPollution overwriting the value whatever the mode
lightPollutionOverwritten(st, normalized) ==
  [st EXCEPT !.autoLightPollution = normalized, !.lightPollution = normalized]

\* updateLightPollution storing an automatic value: always as the auto
\* estimate, as the value in use only in auto mode
lightPollutionStored(st, normalized) ==
  IF st.lpMode = "auto"
  THEN [st EXCEPT !.autoLightPollution = normalized, !.lightPollution = normalized]
  ELSE [st EXCEPT !.autoLightPollution = normalized]

\* updateLightPollution completes (the grid gave no sample)
LightPollutionEstimated ==
  \E req \in lpReq :
    /\ lpReq' = lpReq \ {req}
    /\ Recompute([lightPollutionStored(
                    state,
                    PlaceAdjust(FallbackLightPollution(req.lat, req.lon).normalized,
                                req.ctx))
                    EXCEPT !.lightPollutionFor = req.id])
    /\ UNCHANGED <<now, env, gridVars, workerVars, forecastVars, betweenVars, kpLive, locating, nLoc, searches, sunReq, weatherReq>>

\* updateLightPollution, getLightPollution rejects: the estimate is 0.5
LightPollutionFails ==
  \E req \in lpReq :
    /\ lpReq' = lpReq \ {req}
    /\ Recompute([lightPollutionStored(state, 50)
                    EXCEPT !.lightPollutionFor = req.id])
    /\ UNCHANGED <<now, env, gridVars, workerVars, forecastVars, betweenVars, kpLive, locating, nLoc, searches, sunReq, weatherReq>>

\* refreshWeather, the response arrives
WeatherArrives ==
  \E req \in weatherReq, data \in WeatherFeeds(now) :
    /\ weatherReq' = weatherReq \ {req}
    /\ LET cur == clamp01(data.current)
           hourly == ParseHourly(data.hourly)
           cloud == IF cur.k = "none" /\ Len(hourly) > 0
                    THEN Num(hourly[1].cover) ELSE cur
           st1 == IF cloud.k # "none"
                  THEN [state EXCEPT !.cloudCover = cloud, !.cloudCoverFor = req.id]
                  ELSE state
           st2 == [st1 EXCEPT !.hourlyCloudCover = hourly,
                              !.weatherSource = "open-meteo"]
       IN  Recompute(st2)
    /\ UNCHANGED <<now, env, gridVars, workerVars, forecastVars, betweenVars, kpLive, locating, nLoc, searches, lpReq, sunReq>>

\* refreshWeather, the fetch fails
WeatherFails ==
  \E req \in weatherReq :
    /\ weatherReq' = weatherReq \ {req}
    /\ LET st1 == [state EXCEPT !.weatherSource = "fallback"]
           st2 == IF ~TypeofNumber(st1.cloudCover)
                  THEN [st1 EXCEPT !.cloudCover = Num(20)] ELSE st1
       IN  Recompute(st2)
    /\ UNCHANGED <<now, env, gridVars, workerVars, forecastVars, betweenVars, kpLive, locating, nLoc, searches, lpReq, sunReq>>

\* refreshDarknessFromSunriseSunset, the response arrives
SunArrives ==
  \E req \in sunReq, results \in SunFeeds(now) :
    /\ sunReq' = sunReq \ {req}
    /\ LET live == buildDarknessFromLiveTimes(results, now % MinutesPerDay)
       IN  IF live.some
           THEN Recompute([state EXCEPT !.darknessLive = live,
                                        !.darknessSource = "live-api",
                                        !.darknessLiveFor = req.id])
           ELSE UNCHANGED <<state, inputs, result, chart>>
    /\ UNCHANGED <<now, env, gridVars, workerVars, forecastVars, betweenVars, kpLive, locating, nLoc, searches, lpReq, weatherReq>>

\* refreshDarknessFromSunriseSunset, the fetch fails or the status is not OK
SunFails ==
  \E req \in sunReq :
    /\ sunReq' = sunReq \ {req}
    /\ state' = [state EXCEPT !.darknessLive = NoDarkness, !.darknessLiveFor = 0]
    /\ UNCHANGED <<now, env, gridVars, workerVars, forecastVars, betweenVars, kpLive, locating, nLoc, searches, lpReq, weatherReq,
                   inputs, result, chart>>

\* onKpChange: the slider moves
OnKpChange ==
  \E val \in KpSlider :
    /\ val # state.kp
    /\ Recompute([state EXCEPT !.kp = val])
    /\ UNCHANGED appVarsButState

\* applyKpToUi for a KP in hundredths: clamped to the slider's range 0..9 and
\* written with one decimal (toFixed(1)); the result is in tenths
applyKpToUi(kpValue) == (Min(900, Max(0, kpValue)) + 5) \div 10

\* Kp_fraction values of the NOAA feed, in hundredths
LiveKpValues == {267, 733}

\* at most MaxLiveEvents toggle changes and timer firings
MaxLiveEvents == 4

\* updateFromLiveKp up to its await: one more fetch in flight
updateFromLiveKp(live) == [live EXCEPT !.inFlight = @ + 1]

\* stopLiveUpdates: the interval, if any, is cleared
stopLiveUpdates(live) ==
  [live EXCEPT !.timers = @ \ {live.intervalId}, !.intervalId = 0]

\* startLiveUpdates: the old interval is cleared, a fetch starts, a new
\* interval is set
startLiveUpdates(live) ==
  [updateFromLiveKp(live) EXCEPT
     !.checked = TRUE,
     !.timers = (@ \ {live.intervalId}) \cup {live.nextTimer},
     !.intervalId = live.nextTimer,
     !.nextTimer = @ + 1]

\* the change listener of the toggle: the user flips it
ToggleLive ==
  /\ kpLive.present
  /\ kpLive.events < MaxLiveEvents
  /\ kpLive' = [(IF kpLive.checked
                   THEN stopLiveUpdates([kpLive EXCEPT !.checked = FALSE])
                   ELSE startLiveUpdates(kpLive))
                 EXCEPT !.events = @ + 1]
  /\ UNCHANGED <<pageVars, gridVars, workerVars, forecastVars, betweenVars>>

\* an interval timer of the window fires
LiveTimerFires ==
  /\ kpLive.events < MaxLiveEvents
  /\ \E t \in kpLive.timers :
       kpLive' = [updateFromLiveKp(kpLive) EXCEPT !.events = @ + 1]
  /\ UNCHANGED <<pageVars, gridVars, workerVars, forecastVars, betweenVars>>

\* fetchLatestKpFromNoaa resolves: updateFromLiveKp goes on after its await
LiveKpArrives ==
  \E kp \in LiveKpValues :
    /\ kpLive.inFlight > 0
    /\ kpLive' = [kpLive EXCEPT !.inFlight = @ - 1]
    /\ Recompute([state EXCEPT !.kp = applyKpToUi(kp)])
    /\ UNCHANGED <<now, env, gridVars, workerVars, forecastVars, betweenVars,
                   locating, nLoc, searches, lpReq, sunReq, weatherReq>>

\* fetchLatestKpFromNoaa rejects: the toggle is cleared, live updates stop
LiveKpFails ==
  /\ kpLive.inFlight > 0
  /\ kpLive' = stopLiveUpdates([kpLive EXCEPT !.inFlight = @ - 1,
                                               !.checked = FALSE])
  /\ UNCHANGED <<pageVars, gridVars, workerVars, forecastVars, betweenVars>>

\* handleLpModeClick
HandleLpModeClick ==
  \E mode \in {"auto", "dark", "suburban", "urban"} :
    /\ LET norm == IF mode = "auto" THEN state.autoLightPollution
                   ELSE IF mode = "dark" THEN 20
                   ELSE IF mode = "suburban" THEN 50
                   ELSE 85
       IN  Recompute([state EXCEPT !.lpMode = mode, !.lightPollution = norm])
    /\ UNCHANGED appVarsButState

\* time passes
Tick ==
  /\ now + TickMinutes <= env.start + MaxTicks * TickMinutes
  /\ now' = now + TickMinutes
  /\ UNCHANGED <<state, env, gridVars, workerVars, forecastVars, betweenVars, kpLive, locating, nLoc, searches, lpReq, sunReq, weatherReq,
                 inputs, result, chart>>

\* the app from startup: the location chain, the three feeds, the clock
Next ==
  \/ GpsSuccess
  \/ GpsError
  \/ IpSuccess
  \/ IpNoCoordinates
  \/ IpError
  \/ LightPollutionEstimated
  \/ WeatherArrives
  \/ WeatherFails
  \/ SunArrives
  \/ SunFails
  \/ Tick

Spec == Init /\ [][Next]_vars

\* a geolocation callback fires: the device lookup ends
GeolocationAnswers == locating = "gps" /\ locating' \in {"ip", "done"}

\* a callback of the IP lookup fires
IpLookupAnswers == locating = "ip" /\ locating' = "done"

\* a pending request of the set reqs settles
Settles(reqs, reqsAfter) == \E req \in reqs : reqsAfter = reqs \ {req}

\* every pending callback fires in the end: the geolocation callback (the
\* lookup has a timeout of 8 s), the IP lookup and the three requests
CallbacksFire ==
  /\ WF_locating(GeolocationAnswers)
  /\ WF_locating(IpLookupAnswers)
  /\ WF_lpReq(Settles(lpReq, lpReq'))
  /\ WF_weatherReq(Settles(weatherReq, weatherReq'))
  /\ WF_sunReq(Settles(sunReq, sunReq'))

SpecLive == Spec /\ CallbacksFire

\* the page with the live-KP toggle
NextKp ==
  \/ ToggleLive
  \/ LiveTimerFires
  \/ LiveKpArrives
  \/ LiveKpFails
  \/ OnKpChange

\* the page just loaded on the midwinter night: initKpLiveMode has started
\* live updates, the device has not answered yet
InitKp ==
  /\ state = InitialState
  /\ now = 23 * 60 + 10
  /\ env = [doy0 |-> 355, moonAge0 |-> 0, tz |-> 0, start |-> now]
  /\ locating = "gps"
  /\ GridInit
  /\ WorkerIdle
  /\ ForecastIdle
  /\ BetweenIdle
  /\ kpLive = [startLiveUpdates(NoLiveKp) EXCEPT !.present = TRUE]
  /\ nLoc = 0
  /\ searches = 0
  /\ lpReq = {}
  /\ sunReq = {}
  /\ weatherReq = {}
  /\ inputs = NoInputs
  /\ result = NoResult
  /\ chart = NoChart

SpecKp == InitKp /\ [][NextKp]_vars

\* the user searches a place while the requests of the device location are
\* in flight; the answers arrive in any order
NextRace ==
  \/ SearchResult
  \/ LightPollutionEstimated
  \/ WeatherArrives
  \/ WeatherFails
  \/ SunArrives
  \/ SunFails

\* the app on the midwinter night, just located by the device at 51.5N
InitRace ==
  /\ state = [InitialState EXCEPT !.lat = Num(5150), !.lon = Num(0)]
  /\ now = 23 * 60 + 10
  /\ env = [doy0 |-> 355, moonAge0 |-> 0, tz |-> 0, start |-> now]
  /\ locating = "done"
  /\ GridInit
  /\ WorkerIdle
  /\ ForecastIdle
  /\ BetweenIdle
  /\ KpLiveIdle
  /\ nLoc = 1
  /\ searches = 0
  /\ lpReq = {[id |-> 1, lat |-> 5150, lon |-> 0, ctx |-> "none"]}
  /\ sunReq = {[id |-> 1, lat |-> 5150, lon |-> 0]}
  /\ weatherReq = {[id |-> 1, lat |-> 5150, lon |-> 0]}
  /\ inputs = NoInputs
  /\ result = NoResult
  /\ chart = NoChart

SpecRace == InitRace /\ [][NextRace]_vars

\* the sky-brightness control: locations are fixed and searched, estimates
\* complete or fail, the user clicks modes; the other feeds stay silent
NextLp ==
  \/ GpsSuccess
  \/ SearchResult
  \/ LightPollutionEstimated
  \/ LightPollutionFails
  \/ HandleLpModeClick

\* the app opened on the midwinter night
InitLp ==
  /\ Init
  /\ now = 23 * 60 + 10
  /\ env.doy0 = 355

SpecLp == InitLp /\ [][NextLp]_vars

\* ---------------------------------------------------------------- properties of the app

ExactlyOne(a, b, c) ==
  (a /\ ~b /\ ~c) \/ (~a /\ b /\ ~c) \/ (~a /\ ~b /\ c)

\* C6: every DarknessInfo a scoring pass uses has exactly one coarse regime
\* flag (hasDay, alwaysDaylight, alwaysNight) and exactly one fine regime flag
\* (hasAstronomicalNight, neverDark, alwaysAstronomicalDark).
C6_OneRegimeEach ==
  (result.some /\ inputs.darkness.some) =>
    /\ ExactlyOne(inputs.darkness.hasDay, inputs.darkness.alwaysDaylight,
                  inputs.darkness.alwaysNight)
    /\ ExactlyOne(inputs.darkness.hasAstronomicalNight, inputs.darkness.neverDark,
                  inputs.darkness.alwaysAstronomicalDark)

\* C7: once a location is set and scored, the hourly projection shows at
\* least one scored entry.
C7_ProjectionNonEmpty ==
  result.some => (chart.rows = "entries" /\ Len(chart.entries) >= 1)

\* the projection took the branch of a finite astronomical-night window
WindowBranch ==
  /\ inputs.darkness.hasAstronomicalNight
  /\ inputs.darkness.astroDusk # NoHour
  /\ inputs.darkness.astroDawn # NoHour

\* the projection took the always-dark branch
AlwaysDarkBranch ==
  /\ ~WindowBranch
  /\ (inputs.darkness.alwaysAstronomicalDark \/ inputs.darkness.alwaysNight)

\* C8 as claimed: every hourly projection has between 6 and 12 entries.
C8_SixToTwelveClaimed ==
  chart.rows = "entries" =>
    (Len(chart.entries) >= 6 /\ Len(chart.entries) <= 12)

\* C8 as amended: the always-dark branch lists exactly 12 hours and the
\* fallback branch exactly 8; a finite astronomical-night window lists one
\* entry per whole clock hour of the window, from 1 up to 25.
C8_LengthPerBranch ==
  chart.rows = "entries" =>
    IF WindowBranch THEN Len(chart.entries) >= 1 /\ Len(chart.entries) <= 25
    ELSE IF AlwaysDarkBranch THEN Len(chart.entries) = 12
    ELSE Len(chart.entries) = 8

\* a winter night of more than 12 listed hours
C8_Witness ==
  chart.rows = "entries" /\ WindowBranch /\ Len(chart.entries) > 12

\* distance in minutes between a forecast sample and an hour
SampleDistance(sample, t) ==
  IF sample.time >= t THEN sample.time - t ELSE t - sample.time

\* C9: an hourly entry uses the nearest forecast sample only when that
\* sample is at most 90 minutes away; otherwise it uses the shared base
\* cloud cover.
C9_Within90Minutes ==
  \A i \in DOMAIN chart.entries :
    LET e == chart.entries[i]
        near == {k \in DOMAIN state.hourlyCloudCover :
                   SampleDistance(state.hourlyCloudCover[k], e.time) <= 90}
    IN  IF near # {}
        THEN \E k \in near :
               /\ e.cloudCover = Num(state.hourlyCloudCover[k].cover)
               /\ \A j \in DOMAIN state.hourlyCloudCover :
                    SampleDistance(state.hourlyCloudCover[k], e.time)
                      <= SampleDistance(state.hourlyCloudCover[j], e.time)
        ELSE e.cloudCover = inputs.cloudCover

\* no cloud reading is available: the weather feed has not answered yet or
\* its fetch failed
NoCloudReading == state.weatherSource \in {"pending", "fallback"}

\* the base score of the inputs with a cloud penalty of the given points
BaseWithCloudPenalty(in, points) ==
  Clamp0to100(Num(kpScore(in.kp) + locationScore(in.distanceToOvalKm)
                  - lightPollutionPenalty(in.lightPollution, in.kp)
                  - points * Unit
                  + timeOfNightAdjustment(in.timeLocalHour)))

DaylightAt(d, h) ==
  IF d.hasDay THEN isHourBetween(h, d.sunrise, d.sunset) ELSE d.alwaysDaylight

\* isDarkNow as the darkness d has it at the local hour h
DarkAt(d, h) ==
  IF d.alwaysAstronomicalDark THEN TRUE
  ELSE IF d.hasAstronomicalNight THEN isHourBetween(h, d.astroDusk, d.astroDawn)
  ELSE FALSE

\* C14: the isDaylightNow and isDarkNow flags of the darkness a scoring pass
\* uses are those of the time of the pass, never flags computed earlier.
C14_FlagsOfThePass ==
  (result.some /\ inputs.darkness.some) =>
    /\ inputs.darkness.isDaylightNow
         = DaylightAt(inputs.darkness, inputs.timeLocalHour.v)
    /\ inputs.darkness.isDarkNow
         = DarkAt(inputs.darkness, inputs.timeLocalHour.v)

\* the value the mode stands for, hundredths
ModeValue(st) ==
  IF st.lpMode = "dark" THEN 20
  ELSE IF st.lpMode = "suburban" THEN 50
  ELSE IF st.lpMode = "urban" THEN 85
  ELSE st.autoLightPollution

\* C15: after any sequence of mode clicks and automatic updates the light
\* pollution in use is 0.20 in dark mode, 0.50 in suburban mode, 0.85 in
\* urban mode and the latest automatic estimate in auto mode, and that is
\* the value a scoring pass scores.
C15_ModeDecidesLightPollution ==
  /\ state.lightPollution = ModeValue(state)
  /\ result.some => inputs.lightPollution = Num(ModeValue(state))

\* an automatic estimate other than 0.50 has completed while a manual mode
\* other than suburban is chosen, and a pass has scored the manual value
C15_Witness ==
  /\ result.some
  /\ state.lpMode \in {"dark", "urban"}
  /\ state.autoLightPollution # 50
  /\ state.autoLightPollution # state.lightPollution
  /\ lpReq = {}
  /\ nLoc >= 1

\* the Isle of Rum default
AtRum(st) == st.lat = Num(5700) /\ st.lon = Num(-633)

\* C21: when every pending callback fires, a location is set and a scoring
\* pass runs in the end; a successful device lookup sets the device position,
\* the IP lookup starts only when the device lookup fails, a usable IP answer
\* sets the IP estimate, and the Isle of Rum default is set only by the
\* failing IP lookup.
C21_LocationThenScore ==
  /\ <>(IsNum(state.lat) /\ IsNum(state.lon) /\ result.some)
  /\ [][/\ GpsSuccess => \E l \in DeviceLocations :
                            state'.lat = Num(l.lat) /\ state'.lon = Num(l.lon)
        /\ locating' = "ip" /\ locating # "ip" => GpsError
        /\ IpSuccess => \E l \in IpLocations :
                           state'.lat = Num(l.lat) /\ state'.lon = Num(l.lon)
        /\ AtRum(state') /\ ~AtRum(state) => locating = "ip" /\ locating' = "done"]_vars

\* both lookups failed: the default location has been scored
C21_Witness ==
  /\ locating = "done"
  /\ AtRum(state)
  /\ result.some
  /\ lpReq = {} /\ sunReq = {} /\ weatherReq = {}

\* a <= b on scores
Leq(a, b) == IsNum(a) /\ IsNum(b) /\ a.v <= b.v

\* C27: in every scoring pass and every hourly entry the score after the
\* moon penalty is at most the base score and the final score is at most the
\* score after the moon penalty; every darkness factor lies in [0, 1].
C27_StepsNeverRaise ==
  /\ result.some =>
       /\ Leq(result.scoreAfterMoon, result.baseScore)
       /\ Leq(result.score, result.scoreAfterMoon)
       /\ result.darknessFactor \in 0..20
  /\ \A i \in DOMAIN chart.entries :
       /\ Leq(chart.entries[i].scoreAfterMoon, chart.entries[i].baseScore)
       /\ Leq(chart.entries[i].score, chart.entries[i].scoreAfterMoon)
       /\ chart.entries[i].factor \in 0..20

\* a moonlit twilight pass: both steps lower the score, and so they do in
\* an hour of the chart
C27_Witness ==
  /\ result.some
  /\ result.moonPenalty > 0
  /\ result.scoreAfterMoon.v < result.baseScore.v
  /\ result.darknessFactor < 20
  /\ result.score.v < result.scoreAfterMoon.v
  /\ \E i \in DOMAIN chart.entries :
       chart.entries[i].scoreAfterMoon.v < chart.entries[i].baseScore.v

\* C30: the window never holds more than one live-KP interval timer, and
\* while the toggle is off the KP changes only in steps that leave the live
\* machinery alone (the slider): no fetch that settles then moves it.
C30_OneTimerManualWhenOff ==
  /\ [](Cardinality(kpLive.timers) <= 1)
  /\ [][~kpLive.checked => (state'.kp = state.kp \/ kpLive' = kpLive)]_vars

\* every request has been answered
AllSettled == lpReq = {} /\ sunReq = {} /\ weatherReq = {}

\* C29: once every request has been answered, the automatic light-pollution
\* estimate, the cloud cover and the live darkness held in the state all
\* come from the requests of the most recently selected location (request
\* number nLoc); the darkness a pass used, when live, is then of that
\* location too.
C29_LatestLocationWins ==
  (AllSettled /\ nLoc >= 1) =>
    /\ state.lightPollutionFor = nLoc
    /\ state.cloudCoverFor \in {0, nLoc}
    /\ state.darknessLive.some => state.darknessLiveFor = nLoc
    /\ (result.some /\ inputs.darkness.source = "live-api")
         => state.darknessLiveFor = nLoc

\* ---------------------------------------------------------------- the scoring engine on its own

\* a DarknessInfo with the given flags; a regime with a window carries one
DarknessOf(f) ==
  [some |-> TRUE,
   sunrise |-> IF f.hasDay THEN 8 * 60 ELSE NoHour,
   sunset |-> IF f.hasDay THEN 16 * 60 ELSE NoHour,
   astroDawn |-> IF f.hasAstronomicalNight THEN 6 * 60 ELSE NoHour,
   astroDusk |-> IF f.hasAstronomicalNight THEN 18 * 60 ELSE NoHour,
   hasDay |-> f.hasDay, alwaysDaylight |-> f.alwaysDaylight,
   alwaysNight |-> f.alwaysNight,
   hasAstronomicalNight |-> f.hasAstronomicalNight, neverDark |-> f.neverDark,
   alwaysAstronomicalDark |-> f.alwaysAstronomicalDark,
   isDaylightNow |-> f.isDaylightNow, isDarkNow |-> f.isDarkNow,
   source |-> "model"]

DarknessFlags ==
  [hasDay : BOOLEAN, alwaysDaylight : BOOLEAN, alwaysNight : BOOLEAN,
   hasAstronomicalNight : BOOLEAN, neverDark : BOOLEAN,
   alwaysAstronomicalDark : BOOLEAN, isDaylightNow : BOOLEAN,
   isDarkNow : BOOLEAN]

DarknessInputs == {NoDarkness} \cup {DarknessOf(f) : f \in DarknessFlags}

MoonOf(illum) ==
  [some |-> TRUE, phase |-> 0, illumination |-> illum, phaseName |-> ""]

KpInputs == {Undef, Num(-50), Num(50), Num(120)}

DistanceInputs == {Undef, Num(-100), Num(200), Num(100000)}

LightPollutionInputs == {Undef, Num(-50), Num(20), Num(200)}

CloudInputs == {Undef, NaN, Num(-100), Num(10), Num(200)}

HourInputs == {Num(12 * 60), Num(23 * 60)}

MoonInputs == {NoMoon, MoonOf(0), MoonOf(10), MoonOf(150)}

BrainInputs ==
  [kp : KpInputs, distanceToOvalKm : DistanceInputs,
   lightPollution : LightPollutionInputs, cloudCover : CloudInputs,
   timeLocalHour : HourInputs, moon : MoonInputs, darkness : DarknessInputs]

InitBrain ==
  /\ state = InitialState
  /\ now = 0
  /\ env = [doy0 |-> 1, moonAge0 |-> 0, tz |-> 0, start |-> 0]
  /\ locating = "done"
  /\ GridInit
  /\ WorkerIdle
  /\ ForecastIdle
  /\ BetweenIdle
  /\ KpLiveIdle
  /\ nLoc = 0
  /\ searches = 0
  /\ lpReq = {}
  /\ sunReq = {}
  /\ weatherReq = {}
  /\ inputs \in BrainInputs
  /\ result = NoResult
  /\ chart = NoChart

\* one scoring pass on the drawn inputs
BrainScore ==
  /\ ~result.some
  /\ result' = ScoringPass(inputs)
  /\ UNCHANGED <<appVars, inputs, chart>>

\* one hourly entry on the drawn inputs, for the hour timeLocalHour
BrainHourEntry ==
  /\ result.some
  /\ chart.rows = "none"
  /\ inputs.darkness.some
  /\ chart' = [rows |-> "entries",
               entries |-> <<HourEntry(inputs.timeLocalHour.v, inputs.darkness,
                                       inputs, inputs.moon,
                                       state.hourlyCloudCover)>>]
  /\ UNCHANGED <<appVars, inputs, result>>

NextBrain == BrainScore \/ BrainHourEntry

SpecBrain == InitBrain /\ [][NextBrain]_vars

\* ---------------------------------------------------------------- properties of the scoring pass

\* a score is a number within [0, 100]
InRange(s) == IsNum(s) /\ s.v >= 0 /\ s.v <= 100 * Unit

\* C1: for every combination of inputs, out-of-range and NaN included, the
\* final score of a scoring pass and the score of every hourly entry is a
\* number in [0, 100].
C1_FinalScoreInRange ==
  /\ result.some => InRange(result.score)
  /\ \A i \in DOMAIN chart.entries : InRange(chart.entries[i].score)

\* the numeric inputs of the two scenarios of the testable properties
ScenarioNumbers ==
  /\ inputs.kp = Num(50)
  /\ inputs.distanceToOvalKm = Num(200)
  /\ inputs.lightPollution = Num(20)
  /\ inputs.cloudCover = Num(10)
  /\ inputs.timeLocalHour = Num(23 * 60)
  /\ inputs.moon.some /\ inputs.moon.illumination = 0

\* the Yes scenario: an astronomical night exists and it is fully dark now
YesScenario ==
  /\ ScenarioNumbers
  /\ inputs.darkness.some
  /\ inputs.darkness.hasAstronomicalNight
  /\ ~inputs.darkness.neverDark
  /\ inputs.darkness.isDarkNow

\* C2 as claimed: the Yes scenario scores at least 65 and the verdict is Yes.
C2_YesScenarioClaimed ==
  (result.some /\ YesScenario) =>
    (Geq(result.score, 65) /\ result.verdict = "yes")

\* C2 as amended: the Yes scenario scores 33.33 + 26 - 3 - 2.5 + 3 = 56.83
\* points, unchanged by moon and darkness, and the verdict is Maybe.
C2_YesScenarioScoresMaybe ==
  (result.some /\ YesScenario) =>
    /\ result.score = Num(3410000)
    /\ result.baseScore = result.score
    /\ Geq(result.score, 35) /\ ~Geq(result.score, 65)
    /\ result.verdict = "maybe"

C2_Witness == result.some /\ YesScenario /\ result.verdict = "maybe"

\* the daylight scenario: the same numbers, an astronomical night exists, the
\* context says daylight now (and so not dark now), no polar regime
DaylightScenario ==
  /\ ScenarioNumbers
  /\ inputs.darkness.some
  /\ inputs.darkness.hasAstronomicalNight
  /\ ~inputs.darkness.neverDark
  /\ ~inputs.darkness.alwaysAstronomicalDark
  /\ ~inputs.darkness.alwaysNight
  /\ inputs.darkness.isDaylightNow
  /\ ~inputs.darkness.isDarkNow

\* C3: in the daylight scenario the darkness factor is 0.25, no moon penalty
\* is applied and the final score is in the No band, verdict No.
C3_DaylightScenarioNo ==
  (result.some /\ DaylightScenario) =>
    /\ result.darknessFactor = 5
    /\ result.moonPenalty = 0
    /\ result.scoreAfterMoon = result.baseScore
    /\ ~Geq(result.score, 35)
    /\ result.verdict = "no"

C3_Witness ==
  result.some /\ DaylightScenario /\ result.score = Num(852500)

\* C4: the verdict is decided by the final score alone: Yes exactly when it
\* is >= 65, Maybe exactly when it is >= 35 and not >= 65, No otherwise;
\* the base score plays no part.
C4_VerdictFromFinalScore ==
  result.some =>
    /\ result.verdict \in {"yes", "maybe", "no"}
    /\ result.verdict = "yes" <=> Geq(result.score, 65)
    /\ result.verdict = "maybe" <=>
         (Geq(result.score, 35) /\ ~Geq(result.score, 65))
    /\ result.verdict = "no" <=> ~Geq(result.score, 35)

\* a pass whose base score is in the Yes band and whose verdict is No
C4_Witness ==
  /\ result.some
  /\ Geq(result.baseScore, 65)
  /\ IsNum(result.score) /\ result.score.v < 35 * Unit
  /\ result.verdict = "no"

\* the table of C5 read row by row, first match wins, factors in twentieths;
\* firstRow is the condition of its first row
FactorTable(d, firstRow) ==
  IF ~d.some THEN 20
  ELSE IF firstRow THEN 20
  ELSE IF d.neverDark THEN 10
  ELSE IF d.hasAstronomicalNight /\ d.isDarkNow THEN 20
  ELSE IF d.hasAstronomicalNight /\ d.isDaylightNow THEN 5
  ELSE IF d.hasAstronomicalNight THEN 12
  ELSE IF d.hasDay /\ d.isDaylightNow THEN 6
  ELSE IF d.hasDay THEN 12
  ELSE 20

\* C5 as claimed: the darkness factor is that of the first matching row, the
\* first row being "always fully dark".
C5_FactorTableClaimed ==
  result.some =>
    result.darknessFactor =
      FactorTable(inputs.darkness, inputs.darkness.alwaysAstronomicalDark)

\* C5 as amended: the same table with the first row reading "always fully
\* dark, or always night and not never fully dark".
C5_FactorTableAmended ==
  result.some =>
    result.darknessFactor =
      FactorTable(inputs.darkness,
                  inputs.darkness.alwaysAstronomicalDark
                    \/ (inputs.darkness.alwaysNight /\ ~inputs.darkness.neverDark))

\* a polar-night context with an astronomical window, outside it: factor 1.00
C5_Witness ==
  /\ result.some
  /\ inputs.darkness.some
  /\ inputs.darkness.alwaysNight
  /\ ~inputs.darkness.alwaysAstronomicalDark
  /\ ~inputs.darkness.neverDark
  /\ inputs.darkness.hasAstronomicalNight
  /\ ~inputs.darkness.isDarkNow
  /\ result.darknessFactor = 20

\* C11: a missing or non-numeric kp scores 0 geomagnetic points, a missing or
\* non-numeric distance scores as 1500 km (0 position points), a missing or
\* non-numeric light pollution scores as 0.5 (base penalty 15); numeric
\* inputs out of range are clamped.
C11_NeutralDefaults ==
  result.some =>
    LET b == computeBrain(inputs)
    IN  /\ ~IsNum(inputs.kp) => b.kpScore = 0
        /\ ~IsNum(inputs.distanceToOvalKm) => b.locationScore = 0
        /\ ~IsNum(inputs.lightPollution) =>
              b.lightPollutionPenalty = lightPollutionPenalty(Num(50), inputs.kp)
        /\ (IsNum(inputs.kp) /\ inputs.kp.v > 90) => b.kpScore = 60 * Unit
        /\ (IsNum(inputs.kp) /\ inputs.kp.v < 0) => b.kpScore = 0
        /\ (IsNum(inputs.distanceToOvalKm) /\ inputs.distanceToOvalKm.v > 1500)
              => b.locationScore = 0
        /\ (IsNum(inputs.distanceToOvalKm) /\ inputs.distanceToOvalKm.v < 0)
              => b.locationScore = 30 * Unit
        /\ (IsNum(inputs.lightPollution) /\ inputs.lightPollution.v > 100)
              => b.lightPollutionPenalty = lightPollutionPenalty(Num(100), inputs.kp)
        /\ (IsNum(inputs.lightPollution) /\ inputs.lightPollution.v < 0)
              => b.lightPollutionPenalty = 0

\* the moon penalty applies: moon and darkness are there, it is neither
\* daylight now nor polar day, the illumination is at least 0.1
MoonPenaltyApplies ==
  /\ inputs.moon.some
  /\ inputs.darkness.some
  /\ ~inputs.darkness.isDaylightNow
  /\ ~inputs.darkness.alwaysDaylight
  /\ inputs.moon.illumination >= 10

\* C18: the moon penalty is 0 without moon or darkness, in daylight or polar
\* day, and below illumination 0.1; otherwise it is 18 x illumination
\* (clamped to [0,1]), at most 18 points, and it is subtracted from the base
\* score before the darkness factor is applied.
C18_MoonPenalty ==
  result.some =>
    /\ ~MoonPenaltyApplies =>
         (result.moonPenalty = 0 /\ result.scoreAfterMoon = result.baseScore)
    /\ MoonPenaltyApplies =>
         /\ result.moonPenalty
              = (18 * Min(100, Max(0, inputs.moon.illumination)) * Unit) \div 100
         /\ result.moonPenalty <= 18 * Unit
         /\ result.scoreAfterMoon
              = ClampMin0(Minus(result.baseScore, result.moonPenalty))
    /\ result.score
         = Clamp0to100(Times(result.scoreAfterMoon, result.darknessFactor))

\* a full-moon pass in twilight: 18 points come off before the factor 0.6
C18_Witness ==
  /\ result.some
  /\ MoonPenaltyApplies
  /\ result.moonPenalty = 18 * Unit
  /\ result.darknessFactor = 12
  /\ IsNum(result.baseScore) /\ result.baseScore.v > 18 * Unit
  /\ result.scoreAfterMoon = Num(result.baseScore.v - 18 * Unit)
  /\ result.score = Num((result.scoreAfterMoon.v * 12) \div 20)

\* the step a trace line belongs to
StepOf(line) ==
  IF line \in {"moon", "afterMoon", "moonNegligible"} THEN "moon"
  ELSE IF line \in {"afterDarkness", "unchangedByDarkness"} THEN "final"
  ELSE line

\* the steps of the trace lines of the pass, in order
TraceSteps == [i \in DOMAIN result.debug |-> StepOf(result.debug[i])]

\* the cloud line, present when cloud cover is provided
CloudLine == IF TypeofNumber(inputs.cloudCover) THEN <<"cloud">> ELSE <<>>

GridCoordinates ==
  {Loc(4500, 500), Loc(4500, 36500), Loc(4500, 10000), Loc(4500, 46000),
   Loc(5500, -500), Loc(5500, 500)}

\* lightpollution_grid.json as served: 2 x 2 cells of 10 degrees from 40N 10W
GridFiles ==
  {[some |-> TRUE, lat_min |-> 4000, lon_min |-> -1000, resolution_deg |-> 1000,
    rows |-> 2, cols |-> 2,
    values |-> <<Num(2000), Num(2150), Undef, Num(1800)>>],
   [some |-> TRUE, lat_min |-> 4000, lon_min |-> -1000, resolution_deg |-> 1000,
    rows |-> 2, cols |-> 2,
    values |-> <<Num(1900), Num(2100), Num(2050), Undef>>]}

\* at most MaxCalls calls of getLightPollution
MaxCalls == 3

\* a call with its coordinates, its position ("awaiting" the load it
\* started, or "returned"), whether it began while the fetch was in flight,
\* and what it returned
LpCall(c, pc, duringLoad, estimate) ==
  [lat |-> c.lat, lon |-> c.lon, pc |-> pc, duringLoad |-> duringLoad,
   estimate |-> estimate]

\* every call awaiting the load resumes with the grid g and returns
ResumeCalls(g) ==
  [i \in DOMAIN lpCalls |->
     IF lpCalls[i].pc = "awaiting"
     THEN [lpCalls[i] EXCEPT !.pc = "returned",
                             !.estimate = getLightPollution(g, lpCalls[i].lat,
                                                            lpCalls[i].lon)]
     ELSE lpCalls[i]]

\* getLightPollution is called and loadGridIfNeeded passes its guard: the
\* flag is set, the fetch is issued, the call awaits it
GetLightPollutionLoads ==
  /\ Len(lpCalls) < MaxCalls
  /\ ~gridLoadAttempted
  /\ gridLoadAttempted' = loadAttemptedAfterGuard(gridLoadAttempted)
  /\ gridFetch' = "inflight"
  /\ gridFetches' = gridFetches + 1
  /\ \E c \in GridCoordinates :
       lpCalls' = Append(lpCalls, LpCall(c, "awaiting", gridFetch = "inflight",
                                         NoEstimate))
  /\ UNCHANGED <<grid, workerVars, forecastVars, betweenVars, kpLive, state, now, env, locating, nLoc, searches, lpReq, sunReq,
                 weatherReq, inputs, result, chart>>

\* getLightPollution is called and loadGridIfNeeded returns at its guard:
\* the call samples the grid as it is and returns
GetLightPollutionReturns ==
  /\ Len(lpCalls) < MaxCalls
  /\ gridLoadAttempted
  /\ \E c \in GridCoordinates :
       lpCalls' = Append(lpCalls,
                         LpCall(c, "returned", gridFetch = "inflight",
                                getLightPollution(grid, c.lat, c.lon)))
  /\ UNCHANGED <<gridLoadAttempted, grid, gridFetch, gridFetches, workerVars, forecastVars, betweenVars, kpLive, state, now, env,
                 locating, nLoc, searches, lpReq, sunReq, weatherReq, inputs,
                 result, chart>>

\* the fetch answers with a grid file: gridMeta and gridValues are set, the
\* awaiting call resumes
GridLoaded ==
  /\ gridFetch = "inflight"
  /\ gridFetch' = "done"
  /\ \E data \in GridFiles :
       /\ grid' = data
       /\ lpCalls' = ResumeCalls(data)
  /\ UNCHANGED <<gridLoadAttempted, gridFetches, workerVars, forecastVars, betweenVars, kpLive, state, now, env, locating, nLoc,
                 searches, lpReq, sunReq, weatherReq, inputs, result, chart>>

\* the fetch fails, answers not ok, or the file has no values array: the
\* grid stays as it is, the awaiting call resumes
GridLoadFails ==
  /\ gridFetch = "inflight"
  /\ gridFetch' = "done"
  /\ lpCalls' = ResumeCalls(grid)
  /\ UNCHANGED <<gridLoadAttempted, grid, gridFetches, workerVars, forecastVars, betweenVars, kpLive, state, now, env, locating,
                 nLoc, searches, lpReq, sunReq, weatherReq, inputs, result, chart>>

InitGrid ==
  /\ state = InitialState
  /\ now = 0
  /\ env = [doy0 |-> 1, moonAge0 |-> 0, tz |-> 0, start |-> 0]
  /\ locating = "done"
  /\ GridInit
  /\ WorkerIdle
  /\ ForecastIdle
  /\ BetweenIdle
  /\ KpLiveIdle
  /\ nLoc = 0
  /\ searches = 0
  /\ lpReq = {}
  /\ sunReq = {}
  /\ weatherReq = {}
  /\ inputs = NoInputs
  /\ result = NoResult
  /\ chart = NoChart

NextGrid ==
  \/ GetLightPollutionLoads
  \/ GetLightPollutionReturns
  \/ GridLoaded
  \/ GridLoadFails

SpecGrid == InitGrid /\ [][NextGrid]_vars

\* ---------------------------------------------------------------- properties of the light-pollution module

\* C12: over any interleaving of getLightPollution calls the grid fetch is
\* issued at most once, and once the grid is set it is never modified.
C12_GridLoadedOnce ==
  /\ [](gridFetches <= 1)
  /\ [][grid.some => grid' = grid]_vars

\* two calls have been made, one of them while the fetch was in flight, and
\* the grid is set
C12_Witness ==
  /\ Len(lpCalls) >= 2
  /\ \E i \in DOMAIN lpCalls : lpCalls[i].duringLoad
  /\ grid.some
  /\ gridFetches = 1

\* C13: a call that began while the load was in flight returns a grid
\* estimate when the load succeeds and the grid covers its coordinate.
C13_ConcurrentCallAwaitsLoad ==
  \A i \in DOMAIN lpCalls :
    (/\ lpCalls[i].duringLoad
     /\ lpCalls[i].pc = "returned"
     /\ grid.some
     /\ IsNum(sampleGrid(grid, lpCalls[i].lat, lpCalls[i].lon)))
      => lpCalls[i].estimate.source = "world-atlas-grid"

\* C16: calls whose longitudes differ by whole turns, answered by the same
\* path (grid or fallback), return the same normalized value and class.
C16_LongitudeWrapped ==
  \A i, j \in DOMAIN lpCalls :
    (/\ lpCalls[i].pc = "returned" /\ lpCalls[j].pc = "returned"
     /\ lpCalls[i].lat = lpCalls[j].lat
     /\ (lpCalls[i].lon - lpCalls[j].lon) % 36000 = 0
     /\ lpCalls[i].estimate.source = lpCalls[j].estimate.source)
      => /\ lpCalls[i].estimate.normalized = lpCalls[j].estimate.normalized
         /\ lpCalls[i].estimate.classification = lpCalls[j].estimate.classification

\* ---------------------------------------------------------------- the darkness model by place, day and hour

\* places scored: 78N at two longitudes, 60N, 88N, 70S
DarknessPlaces ==
  {Loc(7800, 1500), Loc(7800, -10000), Loc(6000, 1000), Loc(8800, 1000),
   Loc(-7000, 1000)}

\* days of the year scored: every day of December, and midsummer
DarknessDays == (335..365) \cup {172}

\* the app with a location, at any whole hour of such a day, no feed having
\* answered
InitDarkness ==
  /\ \E l \in DarknessPlaces :
       state = [InitialState EXCEPT !.lat = Num(l.lat), !.lon = Num(l.lon)]
  /\ now \in {h * 60 : h \in 0..23}
  /\ \E d \in DarknessDays :
       env = [doy0 |-> d, moonAge0 |-> 0, tz |-> 0, start |-> now]
  /\ locating = "done"
  /\ GridInit
  /\ WorkerIdle
  /\ ForecastIdle
  /\ BetweenIdle
  /\ KpLiveIdle
  /\ nLoc = 1
  /\ searches = 0
  /\ lpReq = {}
  /\ sunReq = {}
  /\ weatherReq = {}
  /\ inputs = NoInputs
  /\ result = NoResult
  /\ chart = NoChart

\* the one trigger of a pass here is the KP slider
NextDarkness == OnKpChange

SpecDarkness == InitDarkness /\ [][NextDarkness]_vars

\* the pass is one at 78N on a December date, on the internal darkness model
PolarDecemberPass ==
  /\ result.some
  /\ state.lat = Num(7800)
  /\ DateAt(now, env).doy >= 335
  /\ inputs.darkness.some
  /\ inputs.darkness.source = "model"

\* C17: at latitude 78 on a December date the darkness model reports polar
\* night (alwaysAstronomicalDark or alwaysNight) and the darkness factor is
\* 1.00 at every hour, with or without an astronomical-night window.
C17_PolarNightFullFactor ==
  PolarDecemberPass =>
    /\ inputs.darkness.alwaysAstronomicalDark \/ inputs.darkness.alwaysNight
    /\ result.darknessFactor = 20

\* a polar-night pass outside the astronomical-night window that exists
C17_Witness ==
  /\ PolarDecemberPass
  /\ inputs.darkness.hasAstronomicalNight
  /\ ~inputs.darkness.isDarkNow
  /\ result.darknessFactor = 20

\* C28: in a DarknessInfo of the internal model the flags isDaylightNow and
\* isDarkNow are never both true, alwaysAstronomicalDark implies alwaysNight
\* and alwaysDaylight implies neverDark.
C28_FlagsConsistent ==
  (inputs.darkness.some /\ inputs.darkness.source = "model") =>
    /\ ~(inputs.darkness.isDaylightNow /\ inputs.darkness.isDarkNow)
    /\ inputs.darkness.alwaysAstronomicalDark => inputs.darkness.alwaysNight
    /\ inputs.darkness.alwaysDaylight => inputs.darkness.neverDark

\* a dark hour of a day that has both a sunrise and an astronomical night
C28_Witness ==
  /\ result.some
  /\ inputs.darkness.source = "model"
  /\ inputs.darkness.hasDay
  /\ inputs.darkness.hasAstronomicalNight
  /\ inputs.darkness.isDarkNow
  /\ ~inputs.darkness.isDaylightNow

\* ---------------------------------------------------------------- the moon model by phase

\* the first minute of the synodic month at which the phase is p (in 1/10000)
AgeOfPhase(p) == (p * SynodicMinutes + 9999) \div 10000

\* the phases the app is opened at: every hundredth of the month and the
\* two sides of every band edge
MoonPhases ==
  {100 * p : p \in 0..99}
    \cup {299, 301, 2199, 2201, 2799, 2801, 4699, 4701, 5299, 5301,
          7199, 7201, 7799, 7801, 9699, 9701, 9999}

\* the app is open at 60N at 23:00 on a winter night, at any of the phases
InitMoon ==
  /\ state = [InitialState EXCEPT !.lat = Num(6000), !.lon = Num(1000)]
  /\ now = 23 * 60
  /\ \E p \in MoonPhases :
       env = [doy0 |-> 355, moonAge0 |-> SynodicMinutes + AgeOfPhase(p) - now,
              tz |-> 0, start |-> now]
  /\ locating = "done"
  /\ GridInit
  /\ WorkerIdle
  /\ ForecastIdle
  /\ BetweenIdle
  /\ KpLiveIdle
  /\ nLoc = 1
  /\ searches = 0
  /\ lpReq = {}
  /\ sunReq = {}
  /\ weatherReq = {}
  /\ inputs = NoInputs
  /\ result = NoResult
  /\ chart = NoChart

\* the one trigger of a pass here is the KP slider
NextMoon == OnKpChange

SpecMoon == InitMoon /\ [][NextMoon]_vars

\* the eight phase names
PhaseNames ==
  {"New Moon", "Waxing crescent", "First quarter", "Waxing gibbous",
   "Full Moon", "Waning gibbous", "Last quarter", "Waning crescent"}

\* the width of the band of a name, in hundredths of the month
BandWidth(name) ==
  Cardinality({p \in 0..99 :
                 computeMoonInfo(AgeOfPhase(100 * p)).phaseName = name})

\* C20 as claimed: the moon of a pass has one of the eight names, the names
\* form bands of roughly equal width (each within half of 0.125 of 0.125),
\* and New Moon is exactly [0.97, 1) and [0, 0.03), phase 0.97 included.
C20_EqualBandsClaimed ==
  result.some =>
    /\ inputs.moon.phaseName \in PhaseNames
    /\ inputs.moon.phaseName = "New Moon"
         <=> (inputs.moon.phase >= 9700 \/ inputs.moon.phase < 300)
    /\ \A n \in PhaseNames :
         4 * BandWidth(n) >= 25 /\ 4 * BandWidth(n) <= 75

\* the bands of the names: phase in [lo, hi), in 1/10000
PhaseBands ==
  {[name |-> "Waxing crescent", lo |-> 300, hi |-> 2200],
   [name |-> "First quarter", lo |-> 2200, hi |-> 2800],
   [name |-> "Waxing gibbous", lo |-> 2800, hi |-> 4700],
   [name |-> "Full Moon", lo |-> 4700, hi |-> 5300],
   [name |-> "Waning gibbous", lo |-> 5300, hi |-> 7200],
   [name |-> "Last quarter", lo |-> 7200, hi |-> 7800],
   [name |-> "Waning crescent", lo |-> 7800, hi |-> 9701],
   [name |-> "New Moon", lo |-> 9701, hi |-> 10000],
   [name |-> "New Moon", lo |-> 0, hi |-> 300]}

\* C20 as amended: the phase of the moon of a pass lies in exactly one band
\* and the moon has the name of that band; the bands cover [0, 1) without
\* gap or overlap, the four named instants being 0.06 wide and the four
\* phases between them 0.19 wide; New Moon is [0, 0.03) and (0.97, 1), and
\* phase 0.97 itself is Waning crescent.
C20_PhaseBands ==
  result.some =>
    /\ inputs.moon.phase \in 0..9999
    /\ \A b \in PhaseBands :
         (inputs.moon.phase >= b.lo /\ inputs.moon.phase < b.hi)
           => inputs.moon.phaseName = b.name
    /\ Cardinality({b \in PhaseBands :
                      inputs.moon.phase >= b.lo /\ inputs.moon.phase < b.hi}) = 1
    /\ \A n \in {"First quarter", "Full Moon", "Last quarter"} : BandWidth(n) = 6
    /\ \A n \in {"Waxing crescent", "Waxing gibbous", "Waning gibbous"} :
         BandWidth(n) = 19

\* a pass at phase 0.97 exactly: the moon is a Waning crescent
C20_Witness ==
  /\ result.some
  /\ inputs.moon.some
  /\ inputs.moon.phase = 9700
  /\ inputs.moon.phaseName = "Waning crescent"

\* ---------------------------------------------------------------- the hours of a night window

\* Math.round((hourValue - hoursWhole) * 60) in buildDateForHour: an hour
\* value carried in seconds of the day becomes the nearest minute of the day
RoundToMinute(hourValueSec) == (hourValueSec + 30) \div 60

\* the darkness of a finite astronomical-night window, dusk and dawn as
\* buildDateForHour reads them
WindowDarkness(astroDuskSec, astroDawnSec) ==
  [NoDarkness EXCEPT !.some = TRUE, !.hasAstronomicalNight = TRUE,
                     !.astroDusk = RoundToMinute(astroDuskSec),
                     !.astroDawn = RoundToMinute(astroDawnSec)]

\* dusk and dawn of the night window, seconds of the local day
DuskTimes ==
  {19 * 3600, 19 * 3600 + 20, 18 * 3600 + 59 * 60 + 40, 18 * 3600 + 20 * 60 + 15,
   23 * 3600 + 30 * 60, 10 * 60, 15 * 3600 + 45 * 60 + 30, 22 * 3600 + 5}

DawnTimes ==
  {6 * 3600, 5 * 3600 + 59 * 60 + 40, 5 * 3600 + 30 * 60 + 10, 30 * 60,
   19 * 3600 + 10, 8 * 3600 + 15 * 60, 23 * 3600 + 59 * 60 + 45}

\* the clock when the chart is drawn, minutes
ChartTimes == {2 * 60, 7 * 60, 13 * 60 + 30, 23 * 60 + 10}

\* a located app about to draw the chart of a night window
InitHours ==
  /\ state = [InitialState EXCEPT !.lat = Num(6000), !.lon = Num(1000)]
  /\ now \in ChartTimes
  /\ \E d \in DuskTimes, w \in DawnTimes :
       env = [doy0 |-> 355, moonAge0 |-> 0, tz |-> 0, start |-> now,
              astroDuskSec |-> d, astroDawnSec |-> w]
  /\ locating = "done"
  /\ GridInit
  /\ WorkerIdle
  /\ ForecastIdle
  /\ BetweenIdle
  /\ KpLiveIdle
  /\ nLoc = 1
  /\ searches = 0
  /\ lpReq = {}
  /\ sunReq = {}
  /\ weatherReq = {}
  /\ inputs = NoInputs
  /\ result = NoResult
  /\ chart = NoChart

\* renderHourlyChart builds hourDates for the window
RenderWindowHours ==
  /\ chart.rows = "none"
  /\ LET hourDates == HourDates(WindowDarkness(env.astroDuskSec, env.astroDawnSec), now)
     IN  chart' = [rows |-> IF Len(hourDates) = 0 THEN "placeholder" ELSE "entries",
                   entries |-> [i \in 1..Len(hourDates) |-> [time |-> hourDates[i]]]]
  /\ UNCHANGED <<appVars, inputs, result>>

NextHours == RenderWindowHours

SpecHours == InitHours /\ [][NextHours]_vars

\* the whole clock hours (in seconds) from dusk through dawn of the night
\* whose dusk is on day k after today, in ascending order
NightHours(k) ==
  LET duskAbs == (DayStart(now) + k * MinutesPerDay) * 60 + env.astroDuskSec
      sameDay == duskAbs - env.astroDuskSec + env.astroDawnSec
      dawnAbs == IF env.astroDawnSec <= env.astroDuskSec
                 THEN sameDay + MinutesPerDay * 60 ELSE sameDay
      first == ((duskAbs + 3599) \div 3600) * 3600
      count == IF first > dawnAbs THEN 0 ELSE (dawnAbs - first) \div 3600 + 1
  IN  [i \in 1..count |-> first + (i - 1) * 3600]

\* C22: the hours listed for a finite astronomical-night window are exactly
\* the whole clock hours from dusk, rounded up to the next whole hour,
\* through dawn of one single night, in ascending order one hour apart;
\* none is earlier than dusk or later than dawn.
C22_WindowHours ==
  chart.rows # "none" =>
    \E k \in {-1, 0, 1} :
      [i \in 1..Len(chart.entries) |-> chart.entries[i].time * 60] = NightHours(k)

\* ---------------------------------------------------------------- the service worker on its own

\* ASSETS, the app shell put in the cache by the install event
ASSETS == {"./", "./index.html", "./app.js"}

\* the requests the page makes: the shell, a script, a data feed
Requests == {"./", "./app.js", "https://api.open-meteo.com/v1/forecast"}

\* at most MaxFetchEvents fetch events are handled
MaxFetchEvents == 2

\* the install event: cache.addAll(ASSETS)
Install ==
  /\ swCache = {}
  /\ swEvents = 0
  /\ swCache' = ASSETS
  /\ UNCHANGED <<swVersion, swEvents, swEvent, pageVars, gridVars, forecastVars, betweenVars, kpLive>>

\* what the aurora-now-v1 handler does with a request: cache first
FetchV1(method, mode, url, network) ==
  IF method # "GET"
  THEN [intercepted |-> FALSE, fetched |-> FALSE, response |-> "", cache |-> swCache]
  ELSE IF url \in swCache
  THEN [intercepted |-> TRUE, fetched |-> FALSE, response |-> "cached", cache |-> swCache]
  ELSE IF network = "ok"
  THEN [intercepted |-> TRUE, fetched |-> TRUE, response |-> "network", cache |-> swCache]
  ELSE [intercepted |-> TRUE, fetched |-> TRUE,
        response |-> IF mode = "navigate" /\ "./" \in swCache THEN "shell"
                     ELSE "undefined",
        cache |-> swCache]

\* what the aurora-now-v2 handler does with a request: network first
FetchV2(method, mode, url, network) ==
  IF method # "GET"
  THEN [intercepted |-> FALSE, fetched |-> FALSE, response |-> "", cache |-> swCache]
  ELSE IF network = "ok"
  THEN [intercepted |-> TRUE, fetched |-> TRUE, response |-> "network",
        cache |-> swCache \cup {url}]
  ELSE [intercepted |-> TRUE, fetched |-> TRUE,
        response |-> IF url \in swCache THEN "cached"
                     ELSE IF mode = "navigate" /\ "./index.html" \in swCache
                          THEN "shell"
                          ELSE "undefined",
        cache |-> swCache]

\* the fetch event
FetchEvent ==
  /\ swEvents < MaxFetchEvents
  /\ swEvents' = swEvents + 1
  /\ \E method \in {"GET", "POST"}, mode \in {"navigate", "cors"},
        url \in Requests, network \in {"ok", "fails"} :
       LET handle(r) ==
             /\ swCache' = r.cache
             /\ swEvent' = [some |-> TRUE, method |-> method, mode |-> mode,
                            url |-> url, network |-> network,
                            wasCached |-> url \in swCache,
                            intercepted |-> r.intercepted, fetched |-> r.fetched,
                            response |-> r.response]
       IN  handle(IF swVersion = "v1" THEN FetchV1(method, mode, url, network)
                  ELSE FetchV2(method, mode, url, network))
  /\ UNCHANGED <<swVersion, pageVars, gridVars, forecastVars, betweenVars, kpLive>>

InitWorker ==
  /\ WorkerInit
  /\ ForecastIdle
  /\ BetweenIdle
  /\ KpLiveIdle
  /\ state = InitialState
  /\ now = 23 * 60
  /\ env = [doy0 |-> 355, moonAge0 |-> 0, tz |-> 0, start |-> now]
  /\ locating = "gps"
  /\ GridInit
  /\ nLoc = 0
  /\ searches = 0
  /\ lpReq = {}
  /\ sunReq = {}
  /\ weatherReq = {}
  /\ inputs = NoInputs
  /\ result = NoResult
  /\ chart = NoChart

NextWorker == Install \/ FetchEvent

SpecWorker == InitWorker /\ [][NextWorker]_vars

\* C23: every GET request is served network first: a successful network
\* fetch is what is returned, a cached copy is consulted only when the
\* network fails, a navigation that fails on the network is answered with
\* the cached app shell; a request that is not a GET is never intercepted.
C23_NetworkFirst ==
  swEvent.some =>
    /\ swEvent.method # "GET" => ~swEvent.intercepted
    /\ swEvent.method = "GET" =>
         /\ swEvent.intercepted
         /\ swEvent.fetched
         /\ swEvent.network = "ok" => swEvent.response = "network"
         /\ swEvent.response \in {"cached", "shell"} => swEvent.network = "fails"
         /\ (swEvent.network = "fails" /\ swEvent.mode = "navigate"
               /\ ASSETS \subseteq swCache)
              => swEvent.response \in {"cached", "shell"}

\* ---------------------------------------------------------------- the v0.1 forecast on its own

\* hourly.time of the feed: eleven hours from 18:00, one of them unparsable
FeedTimes ==
  [i \in 1..11 |-> IF i = 5 THEN NaN ELSE Num(18 * 60 + (i - 1) * 60)]

\* hourly.is_day of the feed: missing, day until 20:00, day throughout
FeedIsDay ==
  {<<>>,
   [i \in 1..11 |-> Num(IF i <= 2 THEN 1 ELSE 0)],
   [i \in 1..11 |-> Num(1)]}

\* hourly.cloud_cover of the feed: clear, mixed with a value over 100 and a
\* null, and an array shorter than hourly.time
FeedCloudCover ==
  {[i \in 1..11 |-> Num(0)],
   [i \in 1..11 |-> IF i = 4 THEN Null ELSE Num(((i * 30) % 140))],
   [i \in 1..3 |-> Num(40)]}

\* weatherData: missing, without hourly arrays, or a feed
WeatherData ==
  {[some |-> FALSE, hourly |-> FALSE, time |-> <<>>, cloud_cover |-> <<>>,
    is_day |-> <<>>],
   [some |-> TRUE, hourly |-> FALSE, time |-> <<>>, cloud_cover |-> <<>>,
    is_day |-> <<>>]}
    \cup {[some |-> TRUE, hourly |-> TRUE, time |-> FeedTimes, cloud_cover |-> c,
           is_day |-> d] : c \in FeedCloudCover, d \in FeedIsDay}

\* spaceWeather: missing, the three strengths of fetchSpaceWeather, and
\* strengths outside them
SpaceWeather ==
  {[some |-> FALSE, baseStrength |-> Undef]}
    \cup {[some |-> TRUE, baseStrength |-> b] :
            b \in {Undef, NaN, Num(3), Num(6), Num(8), Num(50), Num(-2)}}

\* Date.now() at the call, minutes
ForecastClocks == {17 * 60 + 30, 19 * 60, 21 * 60 + 15, 30 * 60}

InitForecast ==
  /\ forecastIn \in [some : {TRUE}, weatherData : WeatherData,
                     spaceWeather : SpaceWeather, now : ForecastClocks]
  /\ forecastOut = NoForecast
  /\ BetweenIdle
  /\ KpLiveIdle
  /\ WorkerIdle
  /\ GridInit
  /\ state = InitialState
  /\ now = 23 * 60
  /\ env = [doy0 |-> 355, moonAge0 |-> 0, tz |-> 0, start |-> now]
  /\ locating = "gps"
  /\ nLoc = 0
  /\ searches = 0
  /\ lpReq = {}
  /\ sunReq = {}
  /\ weatherReq = {}
  /\ inputs = NoInputs
  /\ result = NoResult
  /\ chart = NoChart

\* buildForecast is called
BuildForecast ==
  /\ ~forecastOut.some
  /\ forecastOut' = [some |-> TRUE,
                     hours |-> buildForecast(forecastIn.weatherData,
                                             forecastIn.spaceWeather,
                                             forecastIn.now)]
  /\ UNCHANGED <<forecastIn, pageVars, gridVars, workerVars, betweenVars, kpLive>>

NextForecast == BuildForecast

SpecForecast == InitForecast /\ [][NextForecast]_vars

\* the list is the single synthesized entry one hour ahead
IsFallbackList ==
  /\ Len(forecastOut.hours) = 1
  /\ forecastOut.hours[1].fallback
  /\ forecastOut.hours[1].time = forecastIn.now + 60

\* C24: buildForecast returns between 1 and 8 hours; unless the list is the
\* single synthesized entry one hour ahead, every entry is a feed hour at or
\* after the current time whose is_day flag is not 1, the entries keep the
\* order of the feed, and every score lies in [0, 10].
C24_ForecastHours ==
  forecastOut.some =>
    LET hours == forecastOut.hours
        w == forecastIn.weatherData
    IN  /\ Len(hours) >= 1 /\ Len(hours) <= 8
        /\ ~IsFallbackList =>
             /\ \A j \in DOMAIN hours :
                  /\ hours[j].index \in DOMAIN w.time
                  /\ w.time[hours[j].index] = Num(hours[j].time)
                  /\ hours[j].time >= forecastIn.now
                  /\ At(w.is_day, hours[j].index) # Num(1)
             /\ \A j \in 1..(Len(hours) - 1) : hours[j].index < hours[j + 1].index
        /\ \A j \in DOMAIN hours :
             IsNum(hours[j].score) /\ hours[j].score.v >= 0 /\ hours[j].score.v <= 1000

\* ---------------------------------------------------------------- the time of night on its own

\* local hours handed to the scoring pass, in minutes: every quarter of an
\* hour from two days back to three days ahead, and the minutes next to the
\* band edges
HourValues ==
  {15 * i : i \in (0 - 192)..288}
    \cup {h * 60 + d : h \in {2, 3, 4, 20, 21, 22, 24, -2, -4}, d \in {-1, 1}}

\* a middling pass, far from both ends of the scale, at any of the hours
InitTime ==
  /\ inputs \in [kp : {Num(30)}, distanceToOvalKm : {Num(800)},
                 lightPollution : {Num(50)}, cloudCover : {Num(50)},
                 timeLocalHour : {Num(h) : h \in HourValues} \cup {NaN, Undef},
                 moon : {NoMoon},
                 darkness : {[NoDarkness EXCEPT !.some = TRUE,
                                                !.alwaysAstronomicalDark = TRUE,
                                                !.alwaysNight = TRUE,
                                                !.isDarkNow = TRUE]}]
  /\ state = InitialState
  /\ now = 0
  /\ env = [doy0 |-> 1, moonAge0 |-> 0, tz |-> 0, start |-> 0]
  /\ locating = "done"
  /\ GridInit
  /\ WorkerIdle
  /\ ForecastIdle
  /\ BetweenIdle
  /\ KpLiveIdle
  /\ nLoc = 0
  /\ searches = 0
  /\ lpReq = {}
  /\ sunReq = {}
  /\ weatherReq = {}
  /\ result = NoResult
  /\ chart = NoChart

NextTime == BrainScore

SpecTime == InitTime /\ [][NextTime]_vars

\* the adjustment the pass applied: its base score less the base score of
\* the same inputs without a local hour
AppliedTimeAdjustment ==
  result.baseScore.v - computeBrain([inputs EXCEPT !.timeLocalHour = Undef]).score.v

\* the local hour of the pass reduced modulo 24, in minutes
HourOfDay == inputs.timeLocalHour.v % MinutesPerDay

\* C25: the time-of-night adjustment of a pass is +3 when the local hour,
\* reduced modulo 24, is in [22, 24) or [0, 2), +1 when it is in [3, 4] or
\* [20, 21], and 0 otherwise; it is never negative.
C25_TimeOfNightBands ==
  (result.some /\ IsNum(inputs.timeLocalHour)) =>
    /\ AppliedTimeAdjustment =
         IF HourOfDay >= 22 * 60 \/ HourOfDay < 2 * 60 THEN 3 * Unit
         ELSE IF (HourOfDay >= 3 * 60 /\ HourOfDay <= 4 * 60)
                 \/ (HourOfDay >= 20 * 60 /\ HourOfDay <= 21 * 60) THEN Unit
         ELSE 0
    /\ AppliedTimeAdjustment >= 0

\* a pass at 02:00 on the next day: reduced to 2, outside the midnight band
C25_Witness ==
  /\ result.some
  /\ inputs.timeLocalHour = Num(26 * 60)
  /\ AppliedTimeAdjustment = 0

\* ---------------------------------------------------------------- isHourBetween on its own

\* hours handed to isHourBetween, in minutes: within the day, past it,
\* before it
ClockHours ==
  {0, 1, 6 * 60, 6 * 60 + 1, 12 * 60, 18 * 60, 18 * 60 + 30, 23 * 60 + 59,
   24 * 60, 30 * 60, 42 * 60, 0 - 6 * 60, 0 - 18 * 60, 0 - 24 * 60}

\* a bound: an hour or null
HourBounds == ClockHours \cup {NoHour}

InitBetween ==
  /\ betweenIn \in [some : {TRUE}, h : ClockHours, start : HourBounds,
                    end : HourBounds]
  /\ betweenOut = NotReturned
  /\ KpLiveIdle
  /\ ForecastIdle
  /\ WorkerIdle
  /\ GridInit
  /\ state = InitialState
  /\ now = 23 * 60
  /\ env = [doy0 |-> 355, moonAge0 |-> 0, tz |-> 0, start |-> now]
  /\ locating = "gps"
  /\ nLoc = 0
  /\ searches = 0
  /\ lpReq = {}
  /\ sunReq = {}
  /\ weatherReq = {}
  /\ inputs = NoInputs
  /\ result = NoResult
  /\ chart = NoChart

\* isHourBetween(h, start, end) is called and returns
IsHourBetweenCall ==
  /\ ~betweenOut.some
  /\ betweenOut' = [some |-> TRUE,
                    value |-> isHourBetween(betweenIn.h, betweenIn.start,
                                            betweenIn.end)]
  /\ UNCHANGED <<betweenIn, kpLive, pageVars, gridVars, workerVars, forecastVars>>

NextBetween == IsHourBetweenCall

SpecBetween == InitBetween /\ [][NextBetween]_vars

\* the way forward on the clock from hour a to hour b, in minutes
Forward(a, b) == (b - a) % MinutesPerDay

\* C26: isHourBetween is true exactly when h lies in [start, end) going
\* forward from start on the 24-hour clock, that is when the way from start
\* to h is shorter than the way from start to end; it is false when start
\* equals end on the clock and when a bound is missing.
C26_CircularHalfOpen ==
  betweenOut.some =>
    IF betweenIn.start = NoHour \/ betweenIn.end = NoHour
    THEN ~betweenOut.value
    ELSE /\ betweenOut.value
              <=> Forward(betweenIn.start, betweenIn.h)
                    < Forward(betweenIn.start, betweenIn.end)
         /\ Forward(betweenIn.start, betweenIn.end) = 0 => ~betweenOut.value

\* 30:00 lies between 18:00 of the day before and 06:01: a window across
\* midnight, the hour and the start outside [0, 24)
C26_Witness ==
  /\ betweenOut.some
  /\ betweenOut.value
  /\ betweenIn.h = 30 * 60
  /\ betweenIn.start = 0 - 6 * 60
  /\ betweenIn.end = 6 * 60 + 1

====
